---- MODULE Spec2Model ----
(***************************************************************************)
(* Model of the WhatsApp recharge bot: the client funnel in its two        *)
(* variants (src/index.js: payment method and screenshot; src/unnamed/     *)
(* part_002: multiple offers and custom fields), the operator's command    *)
(* router and dialogs, and the durable tables they read and write.         *)
(*                                                                         *)
(* A text is a sequence of characters, each character a one-element        *)
(* string; the emoji code points that matter to the parsers are the        *)
(* characters VS16 (U+FE0F), KEYCAP (U+20E3) and TEN (U+1F51F).            *)
(***************************************************************************)
EXTENDS Integers, Sequences, FiniteSets, TLC

\* ------------------------------------------------------------------ bounds
\* largest number rendered and parsed back under SpecParse
MaxIndex == 12
\* longest free text parsed under SpecParse
MaxParseLen == 3

\* ------------------------------------------------------------------ characters
VS16 == "VS16"
KEYCAP == "KEYCAP"
TEN == "TEN"

DigitChars == <<"0", "1", "2", "3", "4", "5", "6", "7", "8", "9">>

Digits == {DigitChars[i] : i \in 1..10}

IsDigit(c) == c \in Digits

DigitVal(c) == (CHOOSE i \in 1..10 : DigitChars[i] = c) - 1

\* the white space the inputs hold
WhiteSpace == {" "}

IsSpace(c) == c \in WhiteSpace

\* the value the parsers return for "no number" (JavaScript null / NaN)
NullNum == -1

\* Number.prototype.toString for a non-negative integer
RECURSIVE NumToString(_)
NumToString(n) ==
  IF n < 10 THEN <<DigitChars[n + 1]>>
  ELSE NumToString(n \div 10) \o <<DigitChars[(n % 10) + 1]>>

\* parseInt(s, 10) of a non-empty string of digits
RECURSIVE DigitsValue(_)
DigitsValue(s) ==
  IF Len(s) = 0 THEN 0
  ELSE 10 * DigitsValue(SubSeq(s, 1, Len(s) - 1)) + DigitVal(s[Len(s)])

\* str.replace(/[^0-9]/g, '')
KeepDigits(s) == SelectSeq(s, IsDigit)

\* the glyph table of numberToEmoji: '0️⃣' .. '9️⃣' are digit + VS16 + KEYCAP,
\* '🔟' is the single code point TEN
EmojiMap(n) == IF n = 10 THEN <<TEN>> ELSE <<DigitChars[n + 1], VS16, KEYCAP>>

numberToEmoji(num) == IF num \in 0..10 THEN EmojiMap(num) ELSE NumToString(num)

emojiToNumber(str) ==
  IF KeepDigits(str) = <<>> THEN NullNum ELSE DigitsValue(KeepDigits(str))

\* !n of JavaScript for a parsed number: null and 0 are both falsy
Falsy(n) == n = NullNum \/ n = 0

\* ------------------------------------------------------------------ text helpers
Null == <<>>

UpperChars == <<"C", "V", "O">>
LowerChars == <<"c", "v", "o">>

\* String.prototype.toLowerCase, one character
LowerChar(c) ==
  IF \E i \in 1..Len(UpperChars) : UpperChars[i] = c
  THEN LowerChars[CHOOSE i \in 1..Len(UpperChars) : UpperChars[i] = c]
  ELSE c

ToLower(s) == [i \in 1..Len(s) |-> LowerChar(s[i])]

RECURSIVE TrimLeft(_)
TrimLeft(s) ==
  IF Len(s) > 0 /\ IsSpace(s[1]) THEN TrimLeft(Tail(s)) ELSE s

RECURSIVE TrimRight(_)
TrimRight(s) ==
  IF Len(s) > 0 /\ IsSpace(s[Len(s)]) THEN TrimRight(SubSeq(s, 1, Len(s) - 1)) ELSE s

\* String.prototype.trim
Trim(s) == TrimRight(TrimLeft(s))

\* s.split(re) where re matches every maximal run of separator characters:
\* the pieces between the runs, empty first and last pieces included
RECURSIVE SplitRuns(_, _, _, _)
SplitRuns(s, seps, cur, insep) ==
  IF Len(s) = 0 THEN <<cur>>
  ELSE IF s[1] \in seps
       THEN IF insep THEN SplitRuns(Tail(s), seps, cur, TRUE)
            ELSE <<cur>> \o SplitRuns(Tail(s), seps, <<>>, TRUE)
       ELSE SplitRuns(Tail(s), seps, cur \o <<s[1]>>, FALSE)

\* s.split(/\s+/)
SplitSpaces(s) == SplitRuns(s, WhiteSpace, <<>>, FALSE)

\* s.split(/[,\s]+/)
SplitCommaSpaces(s) == SplitRuns(s, {","} \cup WhiteSpace, <<>>, FALSE)

\* s.replace(/\s+/g, '')
RemoveSpaces(s) == SelectSeq(s, LAMBDA c : ~IsSpace(c))

StartsWithSlash(s) == Len(s) > 0 /\ s[1] = "/"

\* words.join(' ')
RECURSIVE JoinWords(_)
JoinWords(ws) ==
  IF Len(ws) = 0 THEN <<>>
  ELSE IF Len(ws) = 1 THEN ws[1]
       ELSE ws[1] \o <<" ">> \o JoinWords(Tail(ws))

\* parts[i] of JavaScript (1-based here); undefined is Null, and so is ''
\* wherever the code tests parts[i] for truthiness
Part(parts, i) == IF i <= Len(parts) THEN parts[i] ELSE Null

\* words the handlers compare against
W_cancelar == <<"c", "a", "n", "c", "e", "l", "a", "r">>
W_volver == <<"v", "o", "l", "v", "e", "r">>

\* ------------------------------------------------------------------ identities
ADMIN_JID == "admin"
Users == {"u1"}

\* ------------------------------------------------------------------ tables
\* A store S is the record of the durable tables:
\*   games     set of [id, number, name]
\*   offers    set of [id, game_id, number, description, price_mobile,
\*                     price_card, price_usd]
\*   methods   set of [id, type, number, label, details]
\*   gfields   set of [game_id, field_name, field_order]
\*   sessions  [Users -> session row or Null]
\*   requests  set of [id, user_jid, game_name, offer_desc, payment_method,
\*                     payment_details, screenshot_url, status, completed_at]
\*   dialog    the operator's admin_dialogs row, or Null
\*   files     the references stored in the screenshot bucket
\*   nextId    the next identifier the database generates
\*   nextReq   the number of request identifiers generated so far, plus one

\* a field_values column: SQL null, or an object of name/value pairs
FVNull == [isnull |-> TRUE, kv |-> <<>>]
FVEmpty == [isnull |-> FALSE, kv |-> <<>>]

\* fieldValues[name] = value on an object kept as a sequence of pairs
RECURSIVE SetKey(_, _, _)
SetKey(kv, name, value) ==
  IF Len(kv) = 0 THEN <<[name |-> name, value |-> value]>>
  ELSE IF kv[1].name = name THEN <<[name |-> name, value |-> value]>> \o Tail(kv)
       ELSE <<kv[1]>> \o SetKey(Tail(kv), name, value)

\* the row getUserSession inserts: { user_jid, step: 'idle' }, other columns null
NewSession ==
  [step |-> "idle", selected_game |-> NullNum, selected_offer_id |-> NullNum,
   selected_payment_type |-> "null", selected_payment_number |-> NullNum,
   request_id |-> Null, selected_offers |-> Null, field_values |-> FVNull,
   current_field |-> NullNum]

\* supabase update(): the named columns change, the others keep their value
Upd(row, u) == [f \in DOMAIN row |-> IF f \in DOMAIN u THEN u[f] ELSE row[f]]

\* a reset that forgets the pending request id and the payment selection
ClearProofPartial ==
  [step |-> "idle", selected_game |-> NullNum, selected_offer_id |-> NullNum]

\* the reset written by cancel and by finalization, src/index.js
ClearProof ==
  [step |-> "idle", selected_game |-> NullNum, selected_offer_id |-> NullNum,
   selected_payment_type |-> "null", selected_payment_number |-> NullNum,
   request_id |-> Null]

\* the reset written by cancel, the oferta trigger and finalization, part_002
ClearFields ==
  [step |-> "idle", selected_game |-> NullNum, selected_offers |-> Null,
   field_values |-> FVNull, current_field |-> NullNum, request_id |-> Null]

\* generateRequestId: the n-th identifier generated
RequestId(n) == <<"R">> \o NumToString(n)

\* getPublicUrl of the stored screenshot
PublicUrl(requestId) == <<"u", "r", "l", ":">> \o requestId

\* ---- reads
\* maybeSingle(): the matching row, or Null
GameByNumber(S, n) ==
  IF \E g \in S.games : g.number = n
  THEN CHOOSE g \in S.games : g.number = n ELSE Null

\* rows of a set ordered by their number column, ascending
RECURSIVE ByNumber(_)
ByNumber(rows) ==
  IF rows = {} THEN <<>>
  ELSE LET m == CHOOSE r \in rows : \A q \in rows : r.number <= q.number
       IN <<m>> \o ByNumber(rows \ {m})

getGames(S) == ByNumber(S.games)

getOffersByGameId(S, gid) == ByNumber({o \in S.offers : o.game_id = gid})

getOfferByGameAndNumber(S, gid, n) ==
  IF \E o \in S.offers : o.game_id = gid /\ o.number = n
  THEN CHOOSE o \in S.offers : o.game_id = gid /\ o.number = n ELSE Null

getOfferById(S, id) ==
  IF \E o \in S.offers : o.id = id
  THEN CHOOSE o \in S.offers : o.id = id ELSE Null

\* .in('id', ids): the rows whose id is listed, here in id order
RECURSIVE ById(_)
ById(rows) ==
  IF rows = {} THEN <<>>
  ELSE LET m == CHOOSE r \in rows : \A q \in rows : r.id <= q.id
       IN <<m>> \o ById(rows \ {m})

getOffersByIds(S, ids) ==
  ById({o \in S.offers : \E i \in 1..Len(ids) : ids[i] = o.id})

getPaymentMethods(S, type) == ByNumber({m \in S.methods : m.type = type})

getPaymentMethodByNumber(S, type, n) ==
  IF \E m \in S.methods : m.type = type /\ m.number = n
  THEN CHOOSE m \in S.methods : m.type = type /\ m.number = n ELSE Null

getPaymentMethodById(S, id) ==
  IF \E m \in S.methods : m.id = id
  THEN CHOOSE m \in S.methods : m.id = id ELSE Null

\* rows of game_fields of a game ordered by field_order
RECURSIVE ByOrder(_)
ByOrder(rows) ==
  IF rows = {} THEN <<>>
  ELSE LET m == CHOOSE r \in rows : \A q \in rows : r.field_order <= q.field_order
       IN <<m>> \o ByOrder(rows \ {m})

getGameFields(S, gid) == ByOrder({f \in S.gfields : f.game_id = gid})

getRequest(S, id) ==
  IF \E r \in S.requests : r.id = id
  THEN CHOOSE r \in S.requests : r.id = id ELSE Null

\* offers.map(o => o.description).join(', ')
RECURSIVE JoinDescriptions(_)
JoinDescriptions(os) ==
  IF Len(os) = 0 THEN <<>>
  ELSE IF Len(os) = 1 THEN os[1].description
       ELSE os[1].description \o <<",", " ">> \o JoinDescriptions(Tail(os))

\* ------------------------------------------------------------------ effects
\* A handler is planned as the sequence of the calls it awaits, in program
\* order.  An op is [k, a, tr, ct]: the call, its arguments, the try block it
\* stands in (0: none, an exception leaves the handler and is logged by the
\* messages.upsert loop) and whether it is the catch clause of that block.
Op(k, a) == [k |-> k, a |-> a, tr |-> 0, ct |-> FALSE]
InTry(op, n) == [op EXCEPT !.tr = n]
Catch(op, n) == [op EXCEPT !.tr = n, !.ct = TRUE]

Send(to, kind, arg) ==
  Op("send", [to |-> to, kind |-> kind, arg |-> arg, hint |-> FALSE])
\* sendWithCancelHint: the same text with the cancel hint appended
Hint(to, kind, arg) ==
  Op("send", [to |-> to, kind |-> kind, arg |-> arg, hint |-> TRUE])
SendRid(to, kind, arg) ==
  Op("sendRid", [to |-> to, kind |-> kind, arg |-> arg, hint |-> FALSE])
UpdS(jid, u) == Op("updSession", [jid |-> jid, upd |-> u])

\* the unique and foreign keys of the tables
DuplicateGame(S, number) == \E g \in S.games : g.number = number
DuplicateOffer(S, gid, number) ==
  \E o \in S.offers : o.game_id = gid /\ o.number = number
MissingGame(S, gid) == ~\E g \in S.games : g.id = gid
DuplicateMethod(S, type, number) ==
  \E m \in S.methods : m.type = type /\ m.number = number
DuplicateRequest(S, id) == \E r \in S.requests : r.id = id

\* does the call throw on this store, whatever the network does
Throws(S, op, rid) ==
  CASE op.k = "throw" -> TRUE
    [] op.k = "createGame" -> DuplicateGame(S, op.a.number)
    [] op.k = "createOffer" ->
         DuplicateOffer(S, op.a.game_id, op.a.number) \/ MissingGame(S, op.a.game_id)
    [] op.k = "createMethod" -> DuplicateMethod(S, op.a.type, op.a.number)
    [] op.k = "createField" -> MissingGame(S, op.a.game_id)
    [] op.k = "createRequest" -> DuplicateRequest(S, op.a.row.id)
    [] op.k = "createRequestRid" -> DuplicateRequest(S, rid)
    [] OTHER -> FALSE

\* setAdminDialog and clearAdminDialog never look at the error they get back
Silent(op) == op.k \in {"setDialog", "clearDialog"}

\* steps of a plan that are no awaited call
Pseudo(op) == op.k \in {"inc", "throw", "genId"}

\* a read that inserts a fresh row whether or not one is stored
getUserSessionFresh(row) == NewSession

\* getUserSession on the stored row of the identity (Null when there is
\* none): the row itself, or the row it inserts, { user_jid, step: 'idle' }
getUserSession(row) == IF row = Null THEN NewSession ELSE row

\* an update that, besides the status and the time, empties the proof
completeRequestWipe(r) ==
  [r EXCEPT !.status = "completed",
            !.completed_at = IF @ = NullNum THEN 1 ELSE @ + 1,
            !.screenshot_url = Null]

\* .update({ status: 'completed', completed_at: new Date() }) on one row.
\* Every call stores another instant; completed_at is kept as the number of
\* times it has been written, NullNum while it never was.
completeRequestRow(r) ==
  [r EXCEPT !.status = "completed",
            !.completed_at = IF @ = NullNum THEN 1 ELSE @ + 1]

\* the store after the call succeeded
Effect(S, op, rid) ==
  CASE op.k = "ensureSession" ->
         [S EXCEPT !.sessions[op.a.jid] = getUserSession(@)]
    [] op.k = "updSession" ->
         IF S.sessions[op.a.jid] = Null THEN S
         ELSE [S EXCEPT !.sessions[op.a.jid] = Upd(@, op.a.upd)]
    [] op.k = "updSessionRid" ->
         IF S.sessions[op.a.jid] = Null THEN S
         ELSE [S EXCEPT !.sessions[op.a.jid] =
                          Upd(Upd(@, op.a.upd), [request_id |-> rid])]
    [] op.k = "genId" -> [S EXCEPT !.nextReq = @ + 1]
    [] op.k = "upload" -> [S EXCEPT !.files = @ \cup {op.a.ref}]
    [] op.k = "createRequest" -> [S EXCEPT !.requests = @ \cup {op.a.row}]
    [] op.k = "createRequestRid" ->
         [S EXCEPT !.requests = @ \cup {[op.a.row EXCEPT !.id = rid]}]
    [] op.k = "completeRequest" ->
         [S EXCEPT !.requests =
            {IF r.id = op.a.id THEN completeRequestRow(r) ELSE r : r \in @}]
    [] op.k = "setDialog" ->
         [S EXCEPT !.dialog =
            [command |-> op.a.command, step |-> op.a.step, data |-> op.a.data]]
    [] op.k = "clearDialog" -> [S EXCEPT !.dialog = Null]
    [] op.k = "createGame" ->
         [S EXCEPT !.games = @ \cup {[id |-> S.nextId, number |-> op.a.number,
                                      name |-> op.a.name]},
                   !.nextId = @ + 1]
    [] op.k = "updateGame" ->
         [S EXCEPT !.games =
            {IF g.id = op.a.id THEN [g EXCEPT !.name = op.a.name] ELSE g : g \in @}]
    [] op.k = "deleteGame" ->
         [S EXCEPT !.games = {g \in @ : g.id # op.a.id},
                   !.offers = {o \in @ : o.game_id # op.a.id},
                   !.gfields = {f \in @ : f.game_id # op.a.id}]
    [] op.k = "createOffer" ->
         [S EXCEPT !.offers = @ \cup {[id |-> S.nextId, game_id |-> op.a.game_id,
                                       number |-> op.a.number,
                                       description |-> op.a.description,
                                       price_mobile |-> op.a.price_mobile,
                                       price_card |-> op.a.price_card,
                                       price_usd |-> op.a.price_usd]},
                   !.nextId = @ + 1]
    [] op.k = "updateOffer" ->
         [S EXCEPT !.offers = {IF o.id = op.a.id THEN Upd(o, op.a.upd) ELSE o : o \in @}]
    [] op.k = "deleteOffer" -> [S EXCEPT !.offers = {o \in @ : o.id # op.a.id}]
    [] op.k = "createMethod" ->
         [S EXCEPT !.methods = @ \cup {[id |-> S.nextId, type |-> op.a.type,
                                        number |-> op.a.number, label |-> op.a.label,
                                        details |-> op.a.details]},
                   !.nextId = @ + 1]
    [] op.k = "updateMethod" ->
         [S EXCEPT !.methods = {IF m.id = op.a.id THEN Upd(m, op.a.upd) ELSE m : m \in @}]
    [] op.k = "deleteMethod" -> [S EXCEPT !.methods = {m \in @ : m.id # op.a.id}]
    [] op.k = "createField" ->
         [S EXCEPT !.gfields = @ \cup {[id |-> S.nextId, game_id |-> op.a.game_id,
                                        field_name |-> op.a.field_name,
                                        field_order |-> op.a.field_order]},
                   !.nextId = @ + 1]
    [] op.k = "deleteField" ->
         [S EXCEPT !.gfields =
            {f \in @ : ~(f.game_id = op.a.game_id /\ f.field_name = op.a.field_name)}]
    [] OTHER -> S

\* the message the call puts on the wire, if it is a send
Emitted(op, rid, cnt) ==
  CASE op.k = "send" -> <<op.a>>
    [] op.k = "sendRid" -> <<[op.a EXCEPT !.arg = [@ EXCEPT !.id = rid]]>>
    [] op.k = "sendCount" -> <<[op.a EXCEPT !.arg = NumToString(cnt)]>>
    [] OTHER -> <<>>

\* the calls that put a message on the wire; every other awaited call reads
\* or writes the store or the bucket
IsSend(op) == op.k \in {"send", "sendRid", "sendCount"}

\* Run the ops from the i-th on.  f is the index of the awaited call the
\* network fails (0: none); failed is the set of try blocks that have thrown;
\* rid is the request id generated by this handler, cnt its success counter.
\* acc accumulates what the handler did: outs, the messages sent; calls, the
\* store calls that succeeded, in order; failed, the call that was rejected
\* last, by the network or by a key of the table ("none" when none was).
RECURSIVE RunOps(_, _, _, _, _, _, _, _)
RunOps(S, ops, f, i, failed, rid, cnt, acc) ==
  IF i > Len(ops)
  THEN [S |-> S, outs |-> acc.outs, thrown |-> FALSE, calls |-> acc.calls,
        failed |-> acc.failed]
  ELSE
    LET op == ops[i]
        skip == IF op.ct THEN op.tr \notin failed ELSE op.tr \in failed
        fails == Throws(S, op, rid) \/ (f = i /\ ~Pseudo(op))
        rid2 == IF op.k = "genId" THEN RequestId(S.nextReq) ELSE rid
        cnt2 == IF op.k = "inc" THEN cnt + 1 ELSE cnt
        done == [acc EXCEPT !.outs = @ \o Emitted(op, rid2, cnt2),
                            !.calls = IF IsSend(op) \/ Pseudo(op) THEN @
                                      ELSE Append(@, op.k)]
        hit == IF Pseudo(op) THEN acc ELSE [acc EXCEPT !.failed = op.k]
    IN IF skip THEN RunOps(S, ops, f, i + 1, failed, rid, cnt, acc)
       ELSE IF ~fails
            THEN RunOps(Effect(S, op, rid2), ops, f, i + 1, failed, rid2, cnt2, done)
       ELSE IF Silent(op) THEN RunOps(S, ops, f, i + 1, failed, rid, cnt, hit)
       ELSE IF op.tr # 0 /\ ~op.ct
            THEN RunOps(S, ops, f, i + 1, failed \cup {op.tr}, rid, cnt, hit)
       ELSE [S |-> S, outs |-> hit.outs, thrown |-> TRUE, calls |-> hit.calls,
             failed |-> hit.failed]

Run(S, ops, f) ==
  RunOps(S, ops, f, 1, {}, Null, 0, [outs |-> <<>>, calls |-> <<>>, failed |-> "none"])

\* ------------------------------------------------------------------ client funnel
\* An inbound event is [from, text, image]: the sender, extractText(msg) and
\* whether the message carries an imageMessage or documentMessage.

sendMainMenu(S, jid) ==
  IF getGames(S) = <<>> THEN <<Send(jid, "noGames", Null)>>
  ELSE <<Send(jid, "mainMenu", getGames(S))>>

\* ---- src/index.js
handleBackProof(S, jid, session) ==
  CASE session.step \in {"awaiting_game", "idle"} -> sendMainMenu(S, jid)
    [] session.step = "awaiting_offer" ->
         sendMainMenu(S, jid)
           \o <<UpdS(jid, [step |-> "idle", selected_game |-> NullNum])>>
    [] session.step = "awaiting_payment_method" ->
         LET game == GameByNumber(S, session.selected_game)
         IN IF game = Null THEN sendMainMenu(S, jid)
            ELSE <<Hint(jid, "offerList", [game |-> game.name,
                                           offers |-> getOffersByGameId(S, game.id)]),
                   UpdS(jid, [step |-> "awaiting_offer", selected_offer_id |-> NullNum])>>
    [] session.step = "awaiting_payment_choice" ->
         <<Hint(jid, "paymentTypes",
                [card |-> getPaymentMethods(S, "card") # <<>>,
                 mobile |-> getPaymentMethods(S, "mobile") # <<>>]),
           UpdS(jid, [step |-> "awaiting_payment_method",
                      selected_payment_type |-> "null",
                      selected_payment_number |-> NullNum])>>
    [] session.step = "awaiting_screenshot" -> <<Hint(jid, "cannotGoBack", Null)>>
    [] OTHER -> sendMainMenu(S, jid)

\* a product step that gives up on an index that names no product
awaitingGameGivingUp(S, jid, text, nextStep) ==
  LET gameNumber == emojiToNumber(text)
      game == GameByNumber(S, gameNumber)
  IN IF Falsy(gameNumber) THEN <<Hint(jid, "invalidNumber", Null)>>
     ELSE IF game = Null
          THEN <<Hint(jid, "gameNotFound", Null), UpdS(jid, [step |-> "idle"])>>
     ELSE IF getOffersByGameId(S, game.id) = <<>> THEN <<Hint(jid, "noOffers", Null)>>
     ELSE <<Hint(jid, "offerList", [game |-> game.name,
                                    offers |-> getOffersByGameId(S, game.id)]),
            UpdS(jid, [step |-> nextStep, selected_game |-> gameNumber])>>

\* a product step that takes the number without looking it up
awaitingGameUnchecked(S, jid, text, nextStep) ==
  LET gameNumber == emojiToNumber(text)
  IN IF Falsy(gameNumber) THEN <<Hint(jid, "invalidNumber", Null)>>
     ELSE <<Hint(jid, "offerList", Null),
            UpdS(jid, [step |-> nextStep, selected_game |-> gameNumber])>>

awaitingGame(S, jid, text, nextStep) ==
  LET gameNumber == emojiToNumber(text)
      game == GameByNumber(S, gameNumber)
  IN IF Falsy(gameNumber) THEN <<Hint(jid, "invalidNumber", Null)>>
     ELSE IF game = Null THEN <<Hint(jid, "gameNotFound", Null)>>
     ELSE IF getOffersByGameId(S, game.id) = <<>> THEN <<Hint(jid, "noOffers", Null)>>
     ELSE <<Hint(jid, "offerList", [game |-> game.name,
                                    offers |-> getOffersByGameId(S, game.id)]),
            UpdS(jid, [step |-> nextStep, selected_game |-> gameNumber])>>

awaitingOffer(S, jid, text, session) ==
  LET offerNumber == emojiToNumber(text)
      game == GameByNumber(S, session.selected_game)
      offer == getOfferByGameAndNumber(S, game.id, offerNumber)
      cards == getPaymentMethods(S, "card")
      mobiles == getPaymentMethods(S, "mobile")
  IN IF Falsy(offerNumber) THEN <<Hint(jid, "invalidNumber", Null)>>
     ELSE IF game = Null
          THEN <<Hint(jid, "gameGone", Null), UpdS(jid, [step |-> "idle"])>>
     ELSE IF offer = Null THEN <<Hint(jid, "offerNotFound", Null)>>
     ELSE <<UpdS(jid, [step |-> "awaiting_payment_method",
                       selected_offer_id |-> offer.id])>>
          \o IF cards = <<>> /\ mobiles = <<>>
             THEN <<Send(jid, "noMethods", Null), UpdS(jid, [step |-> "idle"])>>
             ELSE <<Hint(jid, "paymentTypes",
                         [card |-> cards # <<>>, mobile |-> mobiles # <<>>])>>

awaitingPaymentMethodGivingUp(S, jid, text) ==
  LET method == Trim(text)
      type == IF method = <<"1">> THEN "card" ELSE "mobile"
      methods == getPaymentMethods(S, type)
  IN IF method # <<"1">> /\ method # <<"2">> THEN <<Hint(jid, "oneOrTwo", Null)>>
     ELSE IF methods = <<>>
          THEN <<Hint(jid, "noMethodsOfType", Null), UpdS(jid, ClearProof)>>
     ELSE <<Hint(jid, "methodList", methods),
            UpdS(jid, [step |-> "awaiting_payment_choice",
                       selected_payment_type |-> type])>>

awaitingPaymentMethod(S, jid, text) ==
  LET method == Trim(text)
      type == IF method = <<"1">> THEN "card" ELSE "mobile"
      methods == getPaymentMethods(S, type)
  IN IF method # <<"1">> /\ method # <<"2">> THEN <<Hint(jid, "oneOrTwo", Null)>>
     ELSE IF methods = <<>> THEN <<Hint(jid, "noMethodsOfType", Null)>>
     ELSE <<Hint(jid, "methodList", methods),
            UpdS(jid, [step |-> "awaiting_payment_choice",
                       selected_payment_type |-> type])>>

awaitingPaymentChoiceOrdering(S, jid, text, session) ==
  LET choiceNumber == emojiToNumber(text)
      method == getPaymentMethodByNumber(S, session.selected_payment_type, choiceNumber)
      game == GameByNumber(S, session.selected_game)
      offer == getOfferById(S, session.selected_offer_id)
  IN IF Falsy(choiceNumber) THEN <<Hint(jid, "invalidNumber", Null)>>
     ELSE IF method = Null THEN <<Hint(jid, "methodNotFound", Null)>>
     ELSE IF game = Null \/ offer = Null
          THEN <<Hint(jid, "internalError", Null), UpdS(jid, [step |-> "idle"])>>
     ELSE <<Op("genId", Null),
            Op("createRequestRid",
               [row |-> [id |-> Null, user_jid |-> jid, game_name |-> game.name,
                         offer_desc |-> offer.description,
                         payment_method |-> method.label,
                         payment_details |-> method.details,
                         screenshot_url |-> Null, status |-> "pending",
                         completed_at |-> NullNum]]),
            SendRid(jid, "paymentInfo",
                    [id |-> Null, game |-> game.name, offer |-> offer.description,
                     details |-> method.details]),
            Op("updSessionRid",
               [jid |-> jid,
                upd |-> [step |-> "awaiting_screenshot",
                         selected_payment_number |-> choiceNumber]])>>

awaitingPaymentChoice(S, jid, text, session) ==
  LET choiceNumber == emojiToNumber(text)
      method == getPaymentMethodByNumber(S, session.selected_payment_type, choiceNumber)
      game == GameByNumber(S, session.selected_game)
      offer == getOfferById(S, session.selected_offer_id)
  IN IF Falsy(choiceNumber) THEN <<Hint(jid, "invalidNumber", Null)>>
     ELSE IF method = Null THEN <<Hint(jid, "methodNotFound", Null)>>
     ELSE IF game = Null \/ offer = Null
          THEN <<Hint(jid, "internalError", Null), UpdS(jid, [step |-> "idle"])>>
     ELSE <<Op("genId", Null),
            SendRid(jid, "paymentInfo",
                    [id |-> Null, game |-> game.name, offer |-> offer.description,
                     details |-> method.details]),
            Op("updSessionRid",
               [jid |-> jid,
                upd |-> [step |-> "awaiting_screenshot",
                         selected_payment_number |-> choiceNumber]])>>

\* a screenshot step that takes whatever message arrives as the proof
awaitingScreenshotAnyMessage(S, jid, ev, session) ==
  LET game == GameByNumber(S, session.selected_game)
      offer == getOfferById(S, session.selected_offer_id)
      method == getPaymentMethodByNumber(S, session.selected_payment_type,
                                         session.selected_payment_number)
      url == PublicUrl(session.request_id)
      body ==
        IF game = Null \/ offer = Null \/ method = Null
        THEN <<Op("throw", Null)>>
        ELSE <<Op("createRequest",
                  [row |-> [id |-> session.request_id, user_jid |-> jid,
                            game_name |-> game.name, offer_desc |-> offer.description,
                            payment_method |-> method.label,
                            payment_details |-> method.details,
                            screenshot_url |-> url, status |-> "pending",
                            completed_at |-> NullNum]]),
               Send(ADMIN_JID, "newRequest",
                    [id |-> session.request_id, user |-> jid, game |-> game.name,
                     offer |-> offer.description, method |-> method.label,
                     screenshot |-> url]),
               Send(jid, "requestSent", [id |-> session.request_id]),
               UpdS(jid, ClearProof)>>
      try == <<Op("upload", [ref |-> session.request_id])>> \o body
  IN [i \in 1..Len(try) |-> InTry(try[i], 1)]
     \o <<Catch(Hint(jid, "screenshotError", Null), 1)>>

awaitingScreenshot(S, jid, ev, session) ==
  LET game == GameByNumber(S, session.selected_game)
      offer == getOfferById(S, session.selected_offer_id)
      method == getPaymentMethodByNumber(S, session.selected_payment_type,
                                         session.selected_payment_number)
      url == PublicUrl(session.request_id)
      body ==
        IF game = Null \/ offer = Null \/ method = Null
        THEN <<Op("throw", Null)>>
        ELSE <<Op("createRequest",
                  [row |-> [id |-> session.request_id, user_jid |-> jid,
                            game_name |-> game.name, offer_desc |-> offer.description,
                            payment_method |-> method.label,
                            payment_details |-> method.details,
                            screenshot_url |-> url, status |-> "pending",
                            completed_at |-> NullNum]]),
               Send(ADMIN_JID, "newRequest",
                    [id |-> session.request_id, user |-> jid, game |-> game.name,
                     offer |-> offer.description, method |-> method.label,
                     screenshot |-> url]),
               Send(jid, "requestSent", [id |-> session.request_id]),
               UpdS(jid, ClearProof)>>
      try == <<Op("upload", [ref |-> session.request_id])>> \o body
  IN IF ~ev.image /\ ~ev.document THEN <<Hint(jid, "needImage", Null)>>
     ELSE [i \in 1..Len(try) |-> InTry(try[i], 1)]
          \o <<Catch(Hint(jid, "screenshotError", Null), 1)>>

handleClientMessageProof(S, jid, ev, session) ==
  LET lower == ToLower(Trim(ev.text))
  IN IF lower = W_cancelar THEN <<UpdS(jid, ClearProof)>> \o sendMainMenu(S, jid)
     ELSE IF lower = W_volver THEN handleBackProof(S, jid, session)
     ELSE CASE session.step = "idle" -> sendMainMenu(S, jid)
            [] session.step = "awaiting_game" ->
                 awaitingGame(S, jid, ev.text, "awaiting_offer")
            [] session.step = "awaiting_offer" -> awaitingOffer(S, jid, ev.text, session)
            [] session.step = "awaiting_payment_method" ->
                 awaitingPaymentMethod(S, jid, ev.text)
            [] session.step = "awaiting_payment_choice" ->
                 awaitingPaymentChoice(S, jid, ev.text, session)
            [] session.step = "awaiting_screenshot" ->
                 awaitingScreenshot(S, jid, ev, session)
            [] OTHER -> sendMainMenu(S, jid)

\* ---- src/unnamed/part_002
W_ofert == <<"o", "f", "e", "r", "t">>
W_oferta == <<"o", "f", "e", "r", "t", "a">>

\* normalize("NFD") and the removal of the combining marks U+0300..U+036F,
\* one character
StripAccent(c) ==
  CASE c = "á" -> "a" [] c = "é" -> "e" [] c = "ó" -> "o" [] OTHER -> c

Contains(s, w) ==
  \E i \in 1..(Len(s) - Len(w) + 1) : SubSeq(s, i, i + Len(w) - 1) = w

\* a test that looks for the word in the text as it was typed
containsOfertasAsTyped(text) ==
  text # <<>> /\ (Contains(text, W_oferta) \/ Contains(text, W_ofert))

containsOfertas(text) ==
  LET normalized == [i \in 1..Len(text) |-> StripAccent(LowerChar(text[i]))]
  IN text # <<>> /\ (Contains(normalized, W_oferta) \/ Contains(normalized, W_ofert))

\* Object.keys(fieldValues) throws on null, after the insert
sendRequestToAdmin(S, jid, session, offerIds, fieldValues) ==
  LET game == GameByNumber(S, session.selected_game)
      offers == getOffersByIds(S, offerIds)
  IN IF game = Null THEN <<Op("throw", Null)>>
     ELSE <<Op("genId", Null),
            Op("createRequestRid",
               [row |-> [id |-> Null, user_jid |-> jid, game_name |-> game.name,
                         offer_desc |-> JoinDescriptions(offers),
                         payment_method |-> <<"p", "e", "n", "d", "i", "e", "n", "t", "e">>,
                         payment_details |-> [field_values |-> fieldValues],
                         screenshot_url |-> Null, status |-> "pending",
                         completed_at |-> NullNum]])>>
          \o (IF fieldValues.isnull THEN <<Op("throw", Null)>> ELSE <<>>)
          \o <<Op("sendRid",
               [to |-> ADMIN_JID, kind |-> "newRequest", hint |-> FALSE,
                arg |-> [id |-> Null, user |-> jid, game |-> game.name,
                         offers |-> offers, fields |-> fieldValues]]),
            SendRid(jid, "requestSent", [id |-> Null]),
            UpdS(jid, ClearFields)>>

handleBackFieldsSubmitting(S, jid, session) ==
  CASE session.step \in {"awaiting_game", "idle"} -> sendMainMenu(S, jid)
    [] session.step = "awaiting_offers" ->
         sendMainMenu(S, jid)
           \o <<UpdS(jid, [step |-> "idle", selected_game |-> NullNum])>>
    [] session.step = "awaiting_fields" ->
         sendRequestToAdmin(S, jid, session, session.selected_offers, FVEmpty)
    [] OTHER -> sendMainMenu(S, jid)

handleBackFields(S, jid, session) ==
  CASE session.step \in {"awaiting_game", "idle"} -> sendMainMenu(S, jid)
    [] session.step = "awaiting_offers" ->
         sendMainMenu(S, jid)
           \o <<UpdS(jid, [step |-> "idle", selected_game |-> NullNum])>>
    [] session.step = "awaiting_fields" ->
         LET game == GameByNumber(S, session.selected_game)
         IN IF game = Null THEN sendMainMenu(S, jid)
            ELSE <<Hint(jid, "offerList", [game |-> game.name,
                                           offers |-> getOffersByGameId(S, game.id)]),
                   UpdS(jid, [step |-> "awaiting_offers", selected_offers |-> Null,
                              field_values |-> FVNull, current_field |-> NullNum])>>
    [] OTHER -> sendMainMenu(S, jid)

\* text.split(/[,\s]+/).map(s => emojiToNumber(s)).filter(n => n !== null)
ParseNumbers(text) ==
  LET pieces == SplitCommaSpaces(text)
      nums == [i \in 1..Len(pieces) |-> emojiToNumber(pieces[i])]
  IN SelectSeq(nums, LAMBDA n : n # NullNum)

\* a loop that skips the numbers that name no offer
RECURSIVE ResolveOffersLenient(_, _)
ResolveOffersLenient(offers, numbers) ==
  IF Len(numbers) = 0 THEN [ids |-> <<>>, bad |-> NullNum]
  ELSE LET hit == SelectSeq(offers, LAMBDA o : o.number = numbers[1])
           rest == ResolveOffersLenient(offers, Tail(numbers))
       IN IF hit = <<>> THEN rest
          ELSE [ids |-> <<hit[1].id>> \o rest.ids, bad |-> rest.bad]

\* the for loop over the chosen numbers: the ids of the offers found, up to
\* the first number that names no offer
RECURSIVE ResolveOffers(_, _)
ResolveOffers(offers, numbers) ==
  IF Len(numbers) = 0 THEN [ids |-> <<>>, bad |-> NullNum]
  ELSE LET hit == SelectSeq(offers, LAMBDA o : o.number = numbers[1])
           rest == ResolveOffers(offers, Tail(numbers))
       IN IF hit = <<>> THEN [ids |-> <<>>, bad |-> numbers[1]]
          ELSE [ids |-> <<hit[1].id>> \o rest.ids, bad |-> rest.bad]

awaitingOffersAlwaysAsking(S, jid, text, session) ==
  LET numbers == ParseNumbers(text)
      game == GameByNumber(S, session.selected_game)
      res == ResolveOffers(getOffersByGameId(S, game.id), numbers)
      fields == getGameFields(S, game.id)
  IN IF numbers = <<>> THEN <<Hint(jid, "noNumbers", Null)>>
     ELSE IF game = Null
          THEN <<Hint(jid, "gameGone", Null), UpdS(jid, [step |-> "idle"])>>
     ELSE IF res.bad # NullNum
          THEN <<Hint(jid, "offerDoesNotExist", NumToString(res.bad))>>
     ELSE <<UpdS(jid, [step |-> "awaiting_fields", selected_offers |-> res.ids,
                       field_values |-> FVEmpty, current_field |-> 0])>>
          \o IF fields = <<>>
             THEN <<>>
             ELSE <<Send(jid, "askField", fields[1].field_name)>>

awaitingOffers(S, jid, text, session) ==
  LET numbers == ParseNumbers(text)
      game == GameByNumber(S, session.selected_game)
      res == ResolveOffers(getOffersByGameId(S, game.id), numbers)
      fields == getGameFields(S, game.id)
  IN IF numbers = <<>> THEN <<Hint(jid, "noNumbers", Null)>>
     ELSE IF game = Null
          THEN <<Hint(jid, "gameGone", Null), UpdS(jid, [step |-> "idle"])>>
     ELSE IF res.bad # NullNum
          THEN <<Hint(jid, "offerDoesNotExist", NumToString(res.bad))>>
     ELSE <<UpdS(jid, [step |-> "awaiting_fields", selected_offers |-> res.ids,
                       field_values |-> FVEmpty, current_field |-> 0])>>
          \o IF fields = <<>>
             THEN sendRequestToAdmin(S, jid, session, res.ids, FVEmpty)
             ELSE <<Send(jid, "askField", fields[1].field_name)>>

awaitingFieldsSameIndex(S, jid, text, session) ==
  LET game == GameByNumber(S, session.selected_game)
      fields == getGameFields(S, game.id)
      currentIdx == IF session.current_field = NullNum THEN 0 ELSE session.current_field
      old == IF session.field_values.isnull THEN FVEmpty ELSE session.field_values
      fieldValues ==
        [isnull |-> FALSE,
         kv |-> SetKey(old.kv, fields[currentIdx + 1].field_name, text)]
  IN IF game = Null
     THEN <<Hint(jid, "gameGone", Null), UpdS(jid, [step |-> "idle"])>>
     ELSE IF currentIdx >= Len(fields)
          THEN sendRequestToAdmin(S, jid, session, session.selected_offers,
                                  session.field_values)
     ELSE IF currentIdx + 1 < Len(fields)
          THEN <<UpdS(jid, [field_values |-> fieldValues]),
                 Send(jid, "askField", fields[currentIdx + 2].field_name)>>
     ELSE <<UpdS(jid, [field_values |-> fieldValues])>>
          \o sendRequestToAdmin(S, jid, session, session.selected_offers, fieldValues)

awaitingFields(S, jid, text, session) ==
  LET game == GameByNumber(S, session.selected_game)
      fields == getGameFields(S, game.id)
      currentIdx == IF session.current_field = NullNum THEN 0 ELSE session.current_field
      old == IF session.field_values.isnull THEN FVEmpty ELSE session.field_values
      fieldValues ==
        [isnull |-> FALSE,
         kv |-> SetKey(old.kv, fields[currentIdx + 1].field_name, text)]
  IN IF game = Null
     THEN <<Hint(jid, "gameGone", Null), UpdS(jid, [step |-> "idle"])>>
     ELSE IF currentIdx >= Len(fields)
          THEN sendRequestToAdmin(S, jid, session, session.selected_offers,
                                  session.field_values)
     ELSE IF currentIdx + 1 < Len(fields)
          THEN <<UpdS(jid, [field_values |-> fieldValues,
                            current_field |-> currentIdx + 1]),
                 Send(jid, "askField", fields[currentIdx + 2].field_name)>>
     ELSE <<UpdS(jid, [field_values |-> fieldValues])>>
          \o sendRequestToAdmin(S, jid, session, session.selected_offers, fieldValues)

handleClientMessageFields(S, jid, ev, session) ==
  LET lower == ToLower(Trim(ev.text))
  IN IF containsOfertas(ev.text) /\ session.step # "idle"
     THEN sendMainMenu(S, jid) \o <<UpdS(jid, ClearFields)>>
     ELSE IF lower = W_cancelar THEN <<UpdS(jid, ClearFields)>> \o sendMainMenu(S, jid)
     ELSE IF lower = W_volver THEN handleBackFields(S, jid, session)
     ELSE CASE session.step = "idle" -> sendMainMenu(S, jid)
            [] session.step = "awaiting_game" ->
                 awaitingGame(S, jid, ev.text, "awaiting_offers")
            [] session.step = "awaiting_offers" -> awaitingOffers(S, jid, ev.text, session)
            [] session.step = "awaiting_fields" -> awaitingFields(S, jid, ev.text, session)
            [] OTHER -> sendMainMenu(S, jid)

\* a handler that takes the step from whatever session row it finds first
handleClientMessageAnyRow(v, S, jid, ev) ==
  LET rows == {w \in DOMAIN S.sessions : S.sessions[w] # Null}
      session == IF rows = {} THEN NewSession
                 ELSE S.sessions[CHOOSE w \in rows : \A x \in rows : w # jid \/ x = jid]
  IN <<Op("ensureSession", [jid |-> jid])>>
       \o IF v = "proof" THEN handleClientMessageProof(S, jid, ev, session)
          ELSE handleClientMessageFields(S, jid, ev, session)

\* getUserSession followed by the handler of the variant
handleClientMessage(v, S, jid, ev) ==
  LET session == IF S.sessions[jid] = Null THEN NewSession ELSE S.sessions[jid]
  IN <<Op("ensureSession", [jid |-> jid])>>
       \o IF v = "proof" THEN handleClientMessageProof(S, jid, ev, session)
          ELSE handleClientMessageFields(S, jid, ev, session)

\* ------------------------------------------------------------------ operator commands
W_s_crear == <<"/", "c", "r", "e", "a", "r">>
W_tarjeta == <<"t", "a", "r", "j", "e", "t", "a">>
W_saldo == <<"s", "a", "l", "d", "o">>
W_tabla == <<"t", "a", "b", "l", "a">>
W_s_anadir == <<"/", "a", "ñ", "a", "d", "i", "r">>
W_juego == <<"j", "u", "e", "g", "o">>
W_a == <<"a">>
W_s_editar == <<"/", "e", "d", "i", "t", "a", "r">>
W_s_listar == <<"/", "l", "i", "s", "t", "a", "r">>
W_juegos == <<"j", "u", "e", "g", "o", "s">>
W_ofertas == <<"o", "f", "e", "r", "t", "a", "s">>
W_metodos == <<"m", "e", "t", "o", "d", "o", "s">>
W_s_borrar == <<"/", "b", "o", "r", "r", "a", "r">>
W_s_completar == <<"/", "c", "o", "m", "p", "l", "e", "t", "a", "r">>
W_s_cancelar == <<"/", "c", "a", "n", "c", "e", "l", "a", "r">>
W_s_campos == <<"/", "c", "a", "m", "p", "o", "s">>
W_agregar == <<"a", "g", "r", "e", "g", "a", "r">>
W_quitar == <<"q", "u", "i", "t", "a", "r">>
W_listar == <<"l", "i", "s", "t", "a", "r">>
W_s_listo == <<"/", "l", "i", "s", "t", "o">>
W_s_fin == <<"/", "f", "i", "n">>
W_s_mid == <<"/", "m", "i", "d">>

SetDialog(command, step, data) ==
  Op("setDialog", [command |-> command, step |-> step, data |-> data])
ClearDialog == Op("clearDialog", Null)

\* the creating and editing commands: they open a dialog at step 1
creatingCommand(S, jid, parts, command) ==
  CASE command = W_s_crear /\ Part(parts, 2) = W_tarjeta ->
         <<SetDialog("crear_tarjeta", 1,
                     [number |-> NullNum, label |-> Null, card_number |-> Null]),
           Send(jid, "askMenuNumber", Null)>>
    [] command = W_s_crear /\ Part(parts, 2) = W_saldo ->
         <<SetDialog("crear_saldo", 1, [number |-> NullNum, label |-> Null]),
           Send(jid, "askMenuNumber", Null)>>
    [] command = W_s_crear /\ Part(parts, 2) = W_tabla ->
         <<SetDialog("crear_tabla", 1, [lines |-> <<>>]), Send(jid, "askTable", Null)>>
    [] command = W_s_anadir /\ Part(parts, 2) = W_juego /\ Part(parts, 3) = W_a
         /\ Part(parts, 4) # Null ->
         LET gameNumber == emojiToNumber(parts[4])
             game == GameByNumber(S, gameNumber)
         IN IF Falsy(gameNumber) THEN <<Send(jid, "needGameNumber", Null)>>
            ELSE IF game = Null THEN <<Send(jid, "gameNotFound", Null)>>
            ELSE <<SetDialog("anadir_ofertas", 1,
                             [game_id |-> game.id, game_number |-> gameNumber,
                              offers |-> <<>>]),
                   Send(jid, "askOffers", game.name)>>
    [] command = W_s_editar /\ Part(parts, 2) = W_juego /\ Part(parts, 3) # Null ->
         LET gameNumber == emojiToNumber(parts[3])
             game == GameByNumber(S, gameNumber)
         IN IF game = Null THEN <<Send(jid, "gameNotFound", Null)>>
            ELSE <<SetDialog("editar_juego", 1,
                             [game_id |-> game.id, game_number |-> gameNumber]),
                   Send(jid, "askNewName", game.name)>>
    [] command = W_s_editar /\ Part(parts, 2) = W_oferta /\ Part(parts, 3) # Null
         /\ Part(parts, 4) # Null ->
         LET game == GameByNumber(S, emojiToNumber(parts[3]))
             offer == getOfferByGameAndNumber(S, game.id, emojiToNumber(parts[4]))
         IN IF game = Null THEN <<Send(jid, "gameNotFound", Null)>>
            ELSE IF offer = Null THEN <<Send(jid, "offerNotFound", Null)>>
            ELSE <<SetDialog("editar_oferta", 1,
                             [offer_id |-> offer.id, game_name |-> game.name,
                              new_desc |-> Null, new_mobile |-> NullNum,
                              new_card |-> NullNum]),
                   Send(jid, "askNewDescription", offer.description)>>
    [] command = W_s_editar /\ Part(parts, 2) \in {W_tarjeta, W_saldo}
         /\ Part(parts, 3) # Null ->
         LET type == IF parts[2] = W_tarjeta THEN "card" ELSE "mobile"
             methodNumber == emojiToNumber(parts[3])
             method == getPaymentMethodByNumber(S, type, methodNumber)
         IN IF method = Null THEN <<Send(jid, "methodNotFound", Null)>>
            ELSE <<SetDialog("editar_metodo", 1,
                             [method_id |-> method.id, type |-> type,
                              method_number |-> methodNumber, new_label |-> Null]),
                   Send(jid, "askNewLabel", method.label)>>
    [] OTHER -> Null

\* /campos agregar|quitar|listar, part_002 only
camposCommand(S, jid, parts, command) ==
  LET game == GameByNumber(S, emojiToNumber(parts[3]))
      fieldName == JoinWords(SubSeq(parts, 4, Len(parts)))
  IN CASE command = W_s_campos /\ Part(parts, 2) = W_agregar /\ Part(parts, 3) # Null
            /\ Part(parts, 4) # Null ->
            IF game = Null THEN <<Send(jid, "gameNotFound", Null)>>
            ELSE <<InTry(Op("createField",
                            [game_id |-> game.id, field_name |-> fieldName,
                             field_order |-> Len(getGameFields(S, game.id)) + 1]), 1),
                   InTry(Send(jid, "fieldAdded", Null), 1),
                   Catch(Send(jid, "error", Null), 1)>>
       [] command = W_s_campos /\ Part(parts, 2) = W_quitar /\ Part(parts, 3) # Null
            /\ Part(parts, 4) # Null ->
            IF game = Null THEN <<Send(jid, "gameNotFound", Null)>>
            ELSE <<InTry(Op("deleteField",
                            [game_id |-> game.id, field_name |-> fieldName]), 1),
                   InTry(Send(jid, "fieldRemoved", Null), 1),
                   Catch(Send(jid, "error", Null), 1)>>
       [] command = W_s_campos /\ Part(parts, 2) = W_listar /\ Part(parts, 3) # Null ->
            IF game = Null THEN <<Send(jid, "gameNotFound", Null)>>
            ELSE <<Send(jid, "fieldList", getGameFields(S, game.id))>>
       [] OTHER -> Null

listCommand(S, jid, parts, command) ==
  CASE command = W_s_listar /\ Part(parts, 2) = W_juegos ->
         <<Send(jid, "gameList", getGames(S))>>
    [] command = W_s_listar /\ Part(parts, 2) = W_ofertas /\ Part(parts, 3) # Null ->
         LET game == GameByNumber(S, emojiToNumber(parts[3]))
         IN IF game = Null THEN <<Send(jid, "gameNotFound", Null)>>
            ELSE <<Send(jid, "offerList", [game |-> game.name,
                                           offers |-> getOffersByGameId(S, game.id)])>>
    [] command = W_s_listar /\ Part(parts, 2) = W_metodos ->
         <<Send(jid, "methodList",
                getPaymentMethods(S, "card") \o getPaymentMethods(S, "mobile"))>>
    [] OTHER -> Null

deleteCommand(S, jid, parts, command) ==
  CASE command = W_s_borrar /\ Part(parts, 2) = W_juego /\ Part(parts, 3) # Null ->
         LET game == GameByNumber(S, emojiToNumber(parts[3]))
         IN IF game = Null THEN <<Send(jid, "gameNotFound", Null)>>
            ELSE <<Op("deleteGame", [id |-> game.id]),
                   Send(jid, "gameDeleted", game.name)>>
    [] command = W_s_borrar /\ Part(parts, 2) = W_oferta /\ Part(parts, 3) # Null
         /\ Part(parts, 4) # Null ->
         LET game == GameByNumber(S, emojiToNumber(parts[3]))
             offer == getOfferByGameAndNumber(S, game.id, emojiToNumber(parts[4]))
         IN IF game = Null THEN <<Send(jid, "gameNotFound", Null)>>
            ELSE IF offer = Null THEN <<Send(jid, "offerNotFound", Null)>>
            ELSE <<Op("deleteOffer", [id |-> offer.id]),
                   Send(jid, "offerDeleted", offer.description)>>
    [] command = W_s_borrar /\ Part(parts, 2) \in {W_tarjeta, W_saldo}
         /\ Part(parts, 3) # Null ->
         LET type == IF parts[2] = W_tarjeta THEN "card" ELSE "mobile"
             method == getPaymentMethodByNumber(S, type, emojiToNumber(parts[3]))
         IN IF method = Null THEN <<Send(jid, "methodNotFound", Null)>>
            ELSE <<Op("deleteMethod", [id |-> method.id]),
                   Send(jid, "methodDeleted", method.label)>>
    [] OTHER -> Null

\* /completar that renotifies a request already completed
completarCommandRepeat(S, jid, parts, command) ==
  LET request == getRequest(S, parts[2])
  IN IF command = W_s_completar /\ Part(parts, 2) # Null
     THEN IF request = Null THEN <<Send(jid, "requestNotFound", Null)>>
          ELSE <<Op("completeRequest", [id |-> parts[2]]),
                 Send(request.user_jid, "completed",
                      [id |-> request.id, game |-> request.game_name,
                       offer |-> request.offer_desc]),
                 Send(jid, "markedCompleted", [id |-> parts[2]])>>
     ELSE Null

completarCommand(S, jid, parts, command) ==
  LET request == getRequest(S, parts[2])
  IN IF command = W_s_completar /\ Part(parts, 2) # Null
     THEN IF request = Null THEN <<Send(jid, "requestNotFound", Null)>>
          ELSE IF request.status = "completed"
               THEN <<Send(jid, "alreadyCompleted", Null)>>
          ELSE <<Op("completeRequest", [id |-> parts[2]]),
                 Send(request.user_jid, "completed",
                      [id |-> request.id, game |-> request.game_name,
                       offer |-> request.offer_desc]),
                 Send(jid, "markedCompleted", [id |-> parts[2]])>>
     ELSE Null

\* the first route that matches, as the chain of if statements returns
FirstPlan(plans) ==
  LET hits == SelectSeq(plans, LAMBDA p : p # Null)
  IN IF hits = <<>> THEN Null ELSE hits[1]

handleAdminCommand(v, S, jid, text) ==
  LET parts == SplitSpaces(Trim(text))
      command == ToLower(parts[1])
      plan == FirstPlan(<<creatingCommand(S, jid, parts, command),
                          IF v = "fields" THEN camposCommand(S, jid, parts, command)
                          ELSE Null,
                          listCommand(S, jid, parts, command),
                          deleteCommand(S, jid, parts, command),
                          completarCommand(S, jid, parts, command),
                          IF command = W_s_cancelar
                          THEN <<ClearDialog, Send(jid, "dialogCancelled", Null)>>
                          ELSE Null>>)
  IN IF plan = Null THEN <<Send(jid, "unknownCommand", Null)>> ELSE plan

\* ------------------------------------------------------------------ operator dialogs
\* Every dialog handler yields [handled, ops]: what it returns to the
\* messages.upsert loop and the calls it awaits.
Handled(ops) == [handled |-> TRUE, ops |-> ops]
NotHandled(ops) == [handled |-> FALSE, ops |-> ops]

\* setAdminDialog(jid, dialog.command, dialog.step, dialog.data) after the
\* handler has assigned dialog.step and fields of dialog.data
Advance(dialog, step, data) == SetDialog(dialog.command, step, data)

\* a commit that deletes the dialog inside the try block, after the write
CommitKeepOnError(jid, write, okKind, okArg) ==
  <<InTry(write, 1), InTry(Send(jid, okKind, okArg), 1), InTry(ClearDialog, 1),
    Catch(Send(jid, "saveError", Null), 1)>>

\* try { await <write>; await sendMessage(ok) } catch { await sendMessage(error) }
\* followed by clearAdminDialog
Commit(jid, write, okKind, okArg) ==
  <<InTry(write, 1), InTry(Send(jid, okKind, okArg), 1),
    Catch(Send(jid, "saveError", Null), 1), ClearDialog>>

\* a card dialog that goes from the label to the confirm number
handleCreateCardDialogSkipping(S, jid, dialog, text) ==
  CASE dialog.step = 1 ->
         IF Falsy(emojiToNumber(text))
         THEN Handled(<<Send(jid, "invalidNumber", Null)>>)
         ELSE Handled(<<Advance(dialog, 2,
                                [dialog.data EXCEPT !.number = emojiToNumber(text)]),
                        Send(jid, "askLabel", Null)>>)
    [] dialog.step = 2 ->
         Handled(<<Advance(dialog, 4, [dialog.data EXCEPT !.label = text]),
                   Send(jid, "askCardNumber", Null)>>)
    [] dialog.step = 3 ->
         Handled(<<Advance(dialog, 4,
                           [dialog.data EXCEPT !.card_number = RemoveSpaces(text)]),
                   Send(jid, "askConfirmNumber", Null)>>)
    [] dialog.step = 4 ->
         Handled(Commit(jid,
                        Op("createMethod",
                           [type |-> "card", number |-> dialog.data.number,
                            label |-> dialog.data.label,
                            details |-> <<[name |-> "card_number",
                                           value |-> dialog.data.card_number],
                                          [name |-> "confirm_number", value |-> text]>>]),
                        "cardSaved", numberToEmoji(dialog.data.number)))
    [] OTHER -> NotHandled(<<>>)

handleCreateCardDialog(S, jid, dialog, text) ==
  CASE dialog.step = 1 ->
         IF Falsy(emojiToNumber(text))
         THEN Handled(<<Send(jid, "invalidNumber", Null)>>)
         ELSE Handled(<<Advance(dialog, 2,
                                [dialog.data EXCEPT !.number = emojiToNumber(text)]),
                        Send(jid, "askLabel", Null)>>)
    [] dialog.step = 2 ->
         Handled(<<Advance(dialog, 3, [dialog.data EXCEPT !.label = text]),
                   Send(jid, "askCardNumber", Null)>>)
    [] dialog.step = 3 ->
         Handled(<<Advance(dialog, 4,
                           [dialog.data EXCEPT !.card_number = RemoveSpaces(text)]),
                   Send(jid, "askConfirmNumber", Null)>>)
    [] dialog.step = 4 ->
         Handled(Commit(jid,
                        Op("createMethod",
                           [type |-> "card", number |-> dialog.data.number,
                            label |-> dialog.data.label,
                            details |-> <<[name |-> "card_number",
                                           value |-> dialog.data.card_number],
                                          [name |-> "confirm_number", value |-> text]>>]),
                        "cardSaved", numberToEmoji(dialog.data.number)))
    [] OTHER -> NotHandled(<<>>)

handleCreateMobileDialog(S, jid, dialog, text) ==
  CASE dialog.step = 1 ->
         IF Falsy(emojiToNumber(text))
         THEN Handled(<<Send(jid, "invalidNumber", Null)>>)
         ELSE Handled(<<Advance(dialog, 2,
                                [dialog.data EXCEPT !.number = emojiToNumber(text)]),
                        Send(jid, "askLabel", Null)>>)
    [] dialog.step = 2 ->
         Handled(<<Advance(dialog, 3, [dialog.data EXCEPT !.label = text]),
                   Send(jid, "askPhoneNumber", Null)>>)
    [] dialog.step = 3 ->
         Handled(Commit(jid,
                        Op("createMethod",
                           [type |-> "mobile", number |-> dialog.data.number,
                            label |-> dialog.data.label,
                            details |-> <<[name |-> "phone_number",
                                           value |-> RemoveSpaces(text)]>>]),
                        "mobileSaved", numberToEmoji(dialog.data.number)))
    [] OTHER -> NotHandled(<<>>)

\* the characters of the class [0-9️⃣🔟] of the table line pattern
NumberGlyphs == Digits \cup {VS16, KEYCAP, TEN}

\* the length of the longest prefix of s whose characters are all in cs
PrefixLen(s, cs) ==
  IF \A i \in 1..Len(s) : s[i] \in cs THEN Len(s)
  ELSE (CHOOSE i \in 1..Len(s) : s[i] \notin cs /\ \A j \in 1..(i - 1) : s[j] \in cs) - 1

\* line.match(/^([0-9️⃣🔟]+)\s+(.+)$/): [ok, num, name] with num the first
\* group and name the second group trimmed
MatchTableLine(line) ==
  LET n == PrefixLen(line, NumberGlyphs)
      rest == SubSeq(line, n + 1, Len(line))
      w == PrefixLen(rest, WhiteSpace)
  IN IF n > 0 /\ w > 0 /\ Len(rest) > 1
     THEN [ok |-> TRUE, num |-> SubSeq(line, 1, n),
           name |-> Trim(SubSeq(rest, 2, Len(rest)))]
     ELSE [ok |-> FALSE, num |-> Null, name |-> Null]

\* if (match) { ... if (num && name) ...: the line names a product
WellFormedLine(line) ==
  LET m == MatchTableLine(line)
  IN m.ok /\ ~Falsy(emojiToNumber(m.num)) /\ m.name # <<>>

\* the body of the for loop over the lines, the i-th line
TableLineOps(jid, line, i) ==
  LET m == MatchTableLine(line)
  IN IF WellFormedLine(line)
     THEN <<InTry(Op("createGame", [number |-> emojiToNumber(m.num), name |-> m.name]), i),
            InTry(Op("inc", Null), i),
            Catch(Send(jid, "gameCreateError", m.name), i)>>
     ELSE <<>>

RECURSIVE TableOps(_, _, _)
TableOps(jid, lines, i) ==
  IF i > Len(lines) THEN <<>>
  ELSE TableLineOps(jid, lines[i], i) \o TableOps(jid, lines, i + 1)

handleCreateTableDialog(S, jid, dialog, text) ==
  IF dialog.step # 1 THEN NotHandled(<<>>)
  ELSE IF ToLower(text) = W_s_listo
       THEN IF dialog.data.lines = <<>>
            THEN Handled(<<Send(jid, "noLines", Null), ClearDialog>>)
            ELSE Handled(TableOps(jid, dialog.data.lines, 1)
                         \o <<Op("sendCount", [to |-> jid, kind |-> "gamesCreated",
                                               arg |-> Null, hint |-> FALSE]),
                              ClearDialog>>)
  ELSE Handled(<<Advance(dialog, 1, [dialog.data EXCEPT !.lines = @ \o <<text>>]),
                 Send(jid, "lineAdded", Null)>>)

\* parseInt(t, 10) of a text without sign: the value of the leading digits
\* after leading white space, NaN (NullNum) when there are none
ParseInt(t) ==
  LET u == TrimLeft(t)
      n == PrefixLen(u, Digits)
  IN IF n = 0 THEN NullNum ELSE DigitsValue(SubSeq(u, 1, n))

\* !isNaN(parseFloat(t)) && isFinite(t) of a token without sign, point or
\* exponent: the whole token is digits
IsNumericToken(t) == Len(t) > 0 /\ \A i \in 1..Len(t) : IsDigit(t[i])

\* the offer line of the anadir_ofertas dialog; parts is 1-based, so the
\* code's idx >= 2 reads idx >= 3 here
ParseOfferLine(text) ==
  LET parts == SplitSpaces(Trim(text))
      number == emojiToNumber(parts[1])
      last == Len(parts)
      hasUsd == IsNumericToken(parts[last])
      idx == IF hasUsd THEN last - 1 ELSE last
  IN IF Len(parts) < 4 THEN [ok |-> FALSE, err |-> "badFormat"]
     ELSE IF Falsy(number) THEN [ok |-> FALSE, err |-> "badOfferNumber"]
     ELSE IF idx < 3 THEN [ok |-> FALSE, err |-> "noPrices"]
     ELSE [ok |-> TRUE,
           offer |-> [number |-> number,
                      desc |-> JoinWords(SubSeq(parts, 2, idx - 2)),
                      mobile |-> ParseInt(parts[idx - 1]),
                      card |-> ParseInt(parts[idx]),
                      usd |-> IF hasUsd THEN DigitsValue(parts[last]) ELSE NullNum]]

OfferOps(jid, gid, off, i) ==
  <<InTry(Op("createOffer",
             [game_id |-> gid, number |-> off.number, description |-> off.desc,
              price_mobile |-> off.mobile, price_card |-> off.card,
              price_usd |-> off.usd]), i),
    InTry(Op("inc", Null), i),
    Catch(Send(jid, "offerCreateError", off.desc), i)>>

RECURSIVE OffersOps(_, _, _, _)
OffersOps(jid, gid, offs, i) ==
  IF i > Len(offs) THEN <<>>
  ELSE OfferOps(jid, gid, offs[i], i) \o OffersOps(jid, gid, offs, i + 1)

handleAddOffersDialog(S, jid, dialog, text) ==
  LET line == ParseOfferLine(text)
  IN IF dialog.step # 1 THEN NotHandled(<<>>)
     ELSE IF ToLower(text) = W_s_fin
          THEN IF dialog.data.offers = <<>>
               THEN Handled(<<Send(jid, "noOffersAdded", Null), ClearDialog>>)
               ELSE Handled(OffersOps(jid, dialog.data.game_id, dialog.data.offers, 1)
                            \o <<Op("sendCount", [to |-> jid, kind |-> "offersCreated",
                                                  arg |-> Null, hint |-> FALSE]),
                                 ClearDialog>>)
     ELSE IF ~line.ok THEN Handled(<<Send(jid, line.err, Null)>>)
     ELSE Handled(<<Advance(dialog, 1,
                            [dialog.data EXCEPT !.offers = @ \o <<line.offer>>]),
                    Send(jid, "offerAdded", line.offer.desc)>>)

handleEditGameDialog(S, jid, dialog, text) ==
  IF dialog.step # 1 THEN NotHandled(<<>>)
  ELSE IF Trim(text) = <<>> THEN Handled(<<Send(jid, "emptyName", Null)>>)
  ELSE Handled(Commit(jid,
                      Op("updateGame", [id |-> dialog.data.game_id, name |-> Trim(text)]),
                      "gameUpdated", Trim(text)))

handleEditOfferDialog(S, jid, dialog, text) ==
  CASE dialog.step = 1 ->
         Handled(<<Advance(dialog, 2, [dialog.data EXCEPT !.new_desc = text]),
                   Send(jid, "askMobilePrice", Null)>>)
    [] dialog.step = 2 ->
         IF ParseInt(text) = NullNum THEN Handled(<<Send(jid, "invalidPrice", Null)>>)
         ELSE Handled(<<Advance(dialog, 3,
                                [dialog.data EXCEPT !.new_mobile = ParseInt(text)]),
                        Send(jid, "askCardPrice", Null)>>)
    [] dialog.step = 3 ->
         IF ParseInt(text) = NullNum THEN Handled(<<Send(jid, "invalidPrice", Null)>>)
         ELSE Handled(<<Advance(dialog, 4,
                                [dialog.data EXCEPT !.new_card = ParseInt(text)]),
                        Send(jid, "askUsdPrice", Null)>>)
    [] dialog.step = 4 ->
         LET blank == text = <<"0">> \/ Trim(text) = <<>>
         IN IF ~blank /\ ParseInt(text) = NullNum
            THEN Handled(<<Send(jid, "invalidUsdPrice", Null)>>)
            ELSE Handled(Commit(jid,
                                Op("updateOffer",
                                   [id |-> dialog.data.offer_id,
                                    upd |-> [description |-> dialog.data.new_desc,
                                             price_mobile |-> dialog.data.new_mobile,
                                             price_card |-> dialog.data.new_card,
                                             price_usd |-> IF blank THEN NullNum
                                                           ELSE ParseInt(text)]]),
                                "offerUpdated", Null))
    [] OTHER -> NotHandled(<<>>)

\* an edit of a card that asks on after the confirm number instead of
\* saving: step 3 writes step 4
handleEditMethodDialogAskingOn(S, jid, dialog, text) ==
  LET method == getPaymentMethodById(S, dialog.data.method_id)
  IN CASE dialog.step = 1 ->
            Handled(<<Advance(dialog, 2, [dialog.data EXCEPT !.new_label = text]),
                      Send(jid, IF dialog.data.type = "card" THEN "askCardNumber"
                                ELSE "askPhoneNumber", Null)>>)
       [] dialog.step \in {2, 3} ->
            IF method = Null
            THEN Handled(<<Send(jid, "methodNotFound", Null), ClearDialog>>)
            ELSE Handled(<<Advance(dialog, dialog.step + 1, dialog.data),
                           Send(jid, "askConfirmNumber", Null)>>)
       [] OTHER -> NotHandled(<<>>)

handleEditMethodDialog(S, jid, dialog, text) ==
  LET method == getPaymentMethodById(S, dialog.data.method_id)
  IN CASE dialog.step = 1 ->
            Handled(<<Advance(dialog, 2, [dialog.data EXCEPT !.new_label = text]),
                      Send(jid, IF dialog.data.type = "card" THEN "askCardNumber"
                                ELSE "askPhoneNumber", Null)>>)
       [] dialog.step = 2 ->
            IF method = Null
            THEN Handled(<<Send(jid, "methodNotFound", Null), ClearDialog>>)
            ELSE IF dialog.data.type = "card"
                 THEN Handled(<<Advance(dialog, 3, dialog.data),
                                Send(jid, "askConfirmNumber", Null)>>)
            ELSE Handled(Commit(jid,
                                Op("updateMethod",
                                   [id |-> dialog.data.method_id,
                                    upd |-> [label |-> dialog.data.new_label,
                                             details |->
                                               SetKey(method.details, "phone_number",
                                                      RemoveSpaces(text))]]),
                                "methodUpdated", Null))
       [] dialog.step = 3 ->
            IF method = Null
            THEN Handled(<<Send(jid, "methodNotFound", Null), ClearDialog>>)
            ELSE Handled(Commit(jid,
                                Op("updateMethod",
                                   [id |-> dialog.data.method_id,
                                    upd |-> [label |-> dialog.data.new_label,
                                             details |->
                                               SetKey(method.details, "confirm_number",
                                                      text)]]),
                                "cardUpdated", Null))
       [] OTHER -> NotHandled(<<>>)

\* the switch on dialog.command
dispatchDialog(S, jid, dialog, text) ==
  CASE dialog.command = "crear_tarjeta" -> handleCreateCardDialog(S, jid, dialog, text)
    [] dialog.command = "crear_saldo" -> handleCreateMobileDialog(S, jid, dialog, text)
    [] dialog.command = "crear_tabla" -> handleCreateTableDialog(S, jid, dialog, text)
    [] dialog.command = "anadir_ofertas" -> handleAddOffersDialog(S, jid, dialog, text)
    [] dialog.command = "editar_juego" -> handleEditGameDialog(S, jid, dialog, text)
    [] dialog.command = "editar_oferta" -> handleEditOfferDialog(S, jid, dialog, text)
    [] dialog.command = "editar_metodo" -> handleEditMethodDialog(S, jid, dialog, text)
    [] OTHER -> NotHandled(<<ClearDialog>>)

\* a dispatcher that lets a text starting with "/" through to the command
\* router
handleAdminDialogSlashFirst(S, jid, text) ==
  IF S.dialog = Null \/ StartsWithSlash(text) THEN NotHandled(<<>>)
  ELSE IF ToLower(Trim(text)) = W_cancelar
       THEN Handled(<<ClearDialog, Send(jid, "dialogCancelled", Null)>>)
  ELSE dispatchDialog(S, jid, S.dialog, text)

\* a dispatcher without the cancel check: every text goes to the handler of
\* the dialog's kind
handleAdminDialogNoCancel(S, jid, text) ==
  IF S.dialog = Null THEN NotHandled(<<>>)
  ELSE dispatchDialog(S, jid, S.dialog, text)

handleAdminDialog(S, jid, text) ==
  IF S.dialog = Null THEN NotHandled(<<>>)
  ELSE IF ToLower(Trim(text)) = W_cancelar
       THEN Handled(<<ClearDialog, Send(jid, "dialogCancelled", Null)>>)
  ELSE dispatchDialog(S, jid, S.dialog, text)

\* ------------------------------------------------------------------ routing
\* a loop body that routes the operator's "/" texts to the command router
\* before it looks for a dialog
RouteCommandFirst(v, S, ev) ==
  LET isAdmin == ev.from = ADMIN_JID
      d == handleAdminDialog(S, ev.from, ev.text)
  IN IF ev.text # <<>> /\ Trim(ev.text) = W_s_mid
     THEN [route |-> "mid", ops |-> <<Send(ev.from, "yourId", Null)>>]
     ELSE IF isAdmin /\ StartsWithSlash(ev.text)
          THEN [route |-> "command", ops |-> handleAdminCommand(v, S, ev.from, ev.text)]
     ELSE IF isAdmin /\ d.handled THEN [route |-> "dialog", ops |-> d.ops]
     ELSE IF ~isAdmin
          THEN [route |-> "client", ops |-> handleClientMessage(v, S, ev.from, ev)]
     ELSE [route |-> "none", ops |-> d.ops]

\* The body of the for loop of the messages.upsert listener for one private
\* message that has content and is not the bot's own: [route, ops].
Route(v, S, ev) ==
  LET isAdmin == ev.from = ADMIN_JID
      d == handleAdminDialog(S, ev.from, ev.text)
  IN IF ev.text # <<>> /\ Trim(ev.text) = W_s_mid
     THEN [route |-> "mid", ops |-> <<Send(ev.from, "yourId", Null)>>]
     ELSE IF isAdmin /\ d.handled THEN [route |-> "dialog", ops |-> d.ops]
     ELSE IF isAdmin /\ StartsWithSlash(ev.text)
          THEN [route |-> "command",
                ops |-> d.ops \o handleAdminCommand(v, S, ev.from, ev.text)]
     ELSE IF ~isAdmin
          THEN [route |-> "client", ops |-> handleClientMessage(v, S, ev.from, ev)]
     ELSE [route |-> "none", ops |-> d.ops]

\* ------------------------------------------------------------------ state
VARIABLES
  variant,    \* "proof": src/index.js; "fields": src/unnamed/part_002
  games, offers, methods, gfields,   \* the catalog tables
  sessions,   \* user_sessions: [Users -> row or Null]
  requests,   \* the requests table
  dialog,     \* the operator's admin_dialogs row, or Null
  files,      \* the screenshot bucket
  nextId, nextReq,
  inflight,   \* [Slots -> the handler a messages.upsert call is running, or Null]
  last,       \* the last event handled: [ev, route, outs, thrown, calls, failed, pre]
  scen,       \* [Users -> progress of the session created by this process
              \*           along ScenarioInputs, or NullNum]
  passes,     \* [Users -> how many times the user chose a product and so
              \*           started a pass of the funnel]
  parse       \* the rendering and parsing under SpecParse

vars == <<variant, games, offers, methods, gfields, sessions, requests, dialog,
          files, nextId, nextReq, inflight, last, scen, passes, parse>>

Store ==
  [games |-> games, offers |-> offers, methods |-> methods, gfields |-> gfields,
   sessions |-> sessions, requests |-> requests, dialog |-> dialog, files |-> files,
   nextId |-> nextId, nextReq |-> nextReq]

Install(S) ==
  /\ games' = S.games /\ offers' = S.offers /\ methods' = S.methods
  /\ gfields' = S.gfields /\ sessions' = S.sessions /\ requests' = S.requests
  /\ dialog' = S.dialog /\ files' = S.files
  /\ nextId' = S.nextId /\ nextReq' = S.nextReq

\* ------------------------------------------------------------------ inputs
\* the most request identifiers generated in a run
MaxRequests == 2

T_empty == <<>>
T_1 == <<"1">>
T_2 == <<"2">>
T_1c9 == <<"1", ",", "9">>
T_1s2 == <<"1", " ", "2">>
T_hola == <<"h", "o", "l", "a">>
T_cancelar == <<"c", "a", "n", "c", "e", "l", "a", "r">>
T_Cancelar == <<" ", "C", "a", "n", "c", "e", "l", "a", "r", " ">>
T_volver == <<"v", "o", "l", "v", "e", "r">>
T_ofertas == <<"O", "f", "e", "r", "t", "a", "s">>
T_completar_R1 == <<"/", "c", "o", "m", "p", "l", "e", "t", "a", "r", " ", "R", "1">>
T_completar_R2 == <<"/", "c", "o", "m", "p", "l", "e", "t", "a", "r", " ", "R", "2">>
T_completar_R9 == <<"/", "c", "o", "m", "p", "l", "e", "t", "a", "r", " ", "R", "9">>
T_borrar_juego_1 == <<"/", "b", "o", "r", "r", "a", "r", " ", "j", "u", "e", "g", "o", " ", "1">>
T_borrar_oferta_2_1 == <<"/", "b", "o", "r", "r", "a", "r", " ", "o", "f", "e", "r", "t", "a", " ", "2", " ", "1">>
T_borrar_oferta_1_1 == <<"/", "b", "o", "r", "r", "a", "r", " ", "o", "f", "e", "r", "t", "a", " ", "1", " ", "1">>
T_borrar_tarjeta_1 == <<"/", "b", "o", "r", "r", "a", "r", " ", "t", "a", "r", "j", "e", "t", "a", " ", "1">>
T_campos_quitar_2_id ==
  <<"/", "c", "a", "m", "p", "o", "s", " ", "q", "u", "i", "t", "a", "r", " ", "2", " ", "i", "d">>

Msg(from, text) == [text |-> text, image |-> FALSE, document |-> FALSE, from |-> from]
Image(from, text) == [text |-> text, image |-> TRUE, document |-> FALSE, from |-> from]
\* a message whose content is a documentMessage, a file that is no picture
Document(from, text) == [text |-> text, image |-> FALSE, document |-> TRUE, from |-> from]

\* what a user sends under Spec
ClientTexts ==
  {T_1, T_2, T_1c9, T_1s2, T_hola, T_cancelar, T_Cancelar, T_volver, T_ofertas}

ClientEvents(u) ==
  {Msg(u, t) : t \in ClientTexts} \cup {Image(u, T_empty), Document(u, T_empty)}

\* what the operator sends under Spec: single-shot commands
OperatorTexts ==
  {T_completar_R1, T_completar_R2, T_completar_R9, T_borrar_juego_1,
   T_borrar_oferta_2_1, T_borrar_oferta_1_1, T_borrar_tarjeta_1, T_campos_quitar_2_id}

\* the scenario of the payment-proof funnel: product 1, offer 1, card, method 1,
\* then the screenshot
ScenarioInputs(u) ==
  <<Msg(u, T_1), Msg(u, T_1), Msg(u, T_1), Msg(u, T_1), Image(u, T_empty)>>

\* ------------------------------------------------------------------ initial store
\* game 1 "A": one offer, no custom field; game 2 "B": offers 1..3 and the
\* custom field "id"; one card; no mobile number
InitGames ==
  {[id |-> 1, number |-> 1, name |-> <<"A">>], [id |-> 2, number |-> 2, name |-> <<"B">>]}

InitOffers ==
  {[id |-> 3, game_id |-> 1, number |-> 1, description |-> <<"X">>,
    price_mobile |-> 100, price_card |-> 150, price_usd |-> NullNum],
   [id |-> 4, game_id |-> 2, number |-> 1, description |-> <<"P">>,
    price_mobile |-> 100, price_card |-> 150, price_usd |-> NullNum],
   [id |-> 5, game_id |-> 2, number |-> 2, description |-> <<"Q">>,
    price_mobile |-> 100, price_card |-> 150, price_usd |-> NullNum],
   [id |-> 6, game_id |-> 2, number |-> 3, description |-> <<"Z">>,
    price_mobile |-> 100, price_card |-> 150, price_usd |-> NullNum]}

InitMethods ==
  {[id |-> 7, type |-> "card", number |-> 1, label |-> <<"M">>,
    details |-> <<[name |-> "card_number", value |-> <<"4">>],
                  [name |-> "confirm_number", value |-> <<"5">>]>>]}

InitFields(v) ==
  IF v = "fields"
  THEN {[id |-> 8, game_id |-> 2, field_name |-> <<"i", "d">>, field_order |-> 1]}
  ELSE {}

\* the database generates the id column: the first identifier after those of
\* the rows the store starts with
FirstFreeId ==
  Cardinality(InitGames) + Cardinality(InitOffers) + Cardinality(InitMethods)
    + Cardinality(InitFields("fields")) + 1

\* A user_sessions row the store holds when the process starts.  No statement
\* of either file writes the step 'awaiting_game' that handleClientMessage
\* dispatches on, so a session in that step is a row that was already stored.
StoredSession == [NewSession EXCEPT !.step = "awaiting_game"]

Slots == {1, 2}

\* last.pre is the row the handler read at its start: the sender's session
\* for a user, the dialog for the operator
NoLast ==
  [ev |-> Msg("none", T_empty), route |-> "none", outs |-> <<>>, thrown |-> FALSE,
   calls |-> <<>>, failed |-> "none", pre |-> Null]
NoParse == [stage |-> "off", n |-> 0, text |-> <<>>, res |-> NullNum]

Init ==
  /\ variant \in {"proof", "fields"}
  /\ games = InitGames /\ offers = InitOffers /\ methods = InitMethods
  /\ gfields = InitFields(variant)
  /\ sessions \in [Users -> {Null, StoredSession}]
  /\ requests = {} /\ dialog = Null /\ files = {}
  /\ nextId = FirstFreeId /\ nextReq = 1
  /\ inflight = [b \in Slots |-> Null]
  /\ last = NoLast
  /\ scen = [u \in Users |-> NullNum]
  /\ passes = [u \in Users |-> 0]
  /\ parse = NoParse

\* ------------------------------------------------------------------ actions
UsesId(ops) == \E i \in 1..Len(ops) : ops[i].k = "genId"

\* the progress of u's session along the scenario after u sent ev
ScenAfter(u, ev) ==
  IF sessions[u] = Null THEN 0
  ELSE IF scen[u] \in 0..4 /\ ev = ScenarioInputs(u)[scen[u] + 1] THEN scen[u] + 1
  ELSE NullNum

\* the passes started once the store has become S2: a pass starts when the
\* session leaves the product menu for the offers of a chosen product
PassesAfter(S2) ==
  [u \in Users |->
     IF /\ sessions[u] # Null /\ sessions[u].step = "awaiting_game"
        /\ S2.sessions[u].step \in {"awaiting_offer", "awaiting_offers"}
     THEN passes[u] + 1 ELSE passes[u]]

\* the operator's dialog and the users' sessions as a process would know them
\* that kept them in its memory: only those of the sender of its last pass
Remembered ==
  [Store EXCEPT !.sessions = [u \in Users |-> IF last.ev.from = u THEN sessions[u] ELSE Null],
                !.dialog = IF last.ev.from = ADMIN_JID THEN dialog ELSE Null]

HandleRemembered(ev) ==
  \E rt \in {Route(variant, Remembered, ev)} : \E r \in {Run(Remembered, rt.ops, 0)} :
     /\ UsesId(rt.ops) => nextReq <= MaxRequests
     /\ Install(r.S)
     /\ last' = [ev |-> ev, route |-> rt.route, outs |-> r.outs, thrown |-> r.thrown,
                  calls |-> r.calls, failed |-> r.failed,
                  pre |-> IF ev.from = ADMIN_JID THEN dialog ELSE sessions[ev.from]]
     /\ scen' = IF ev.from \in Users THEN [scen EXCEPT ![ev.from] = ScenAfter(ev.from, ev)]
                ELSE scen
     /\ passes' = PassesAfter(r.S)
     /\ UNCHANGED <<variant, inflight, parse>>

\* one pass of the messages.upsert loop body, the handler run to its end
Handle(ev) ==
  \E rt \in {Route(variant, Store, ev)} : \E r \in {Run(Store, rt.ops, 0)} :
     /\ UsesId(rt.ops) => nextReq <= MaxRequests
     /\ Install(r.S)
     /\ last' = [ev |-> ev, route |-> rt.route, outs |-> r.outs, thrown |-> r.thrown,
                  calls |-> r.calls, failed |-> r.failed,
                  pre |-> IF ev.from = ADMIN_JID THEN dialog ELSE sessions[ev.from]]
     /\ scen' = IF ev.from \in Users THEN [scen EXCEPT ![ev.from] = ScenAfter(ev.from, ev)]
                ELSE scen
     /\ passes' = PassesAfter(r.S)
     /\ UNCHANGED <<variant, inflight, parse>>

ClientMessage == \E u \in Users : \E ev \in ClientEvents(u) : Handle(ev)

OperatorCommand == \E t \in OperatorTexts : Handle(Msg(ADMIN_JID, t))

Next == ClientMessage \/ OperatorCommand

Spec == Init /\ [][Next]_vars

\* ------------------------------------------------------------------ the operator's dialogs
\* Under SpecAdmin the operator opens dialogs and sends, while one is open,
\* what the operator could send at any time: commands, the two spellings of
\* cancel, lines and the terminator.  A user goes through the funnel so that
\* there is an order /completar can name.
MaxLines == 1

T_crear_tabla == <<"/", "c", "r", "e", "a", "r", " ", "t", "a", "b", "l", "a">>
T_editar_juego_1 ==
  <<"/", "e", "d", "i", "t", "a", "r", " ", "j", "u", "e", "g", "o", " ", "1">>
T_s_cancelar == <<"/", "c", "a", "n", "c", "e", "l", "a", "r">>
T_mid == <<"/", "m", "i", "d">>
T_listo == <<"/", "l", "i", "s", "t", "o">>
T_listar_juegos == <<"/", "l", "i", "s", "t", "a", "r", " ", "j", "u", "e", "g", "o", "s">>

CreatingTexts == {T_crear_tabla, T_editar_juego_1}

SingleShotTexts == {T_borrar_juego_1, T_completar_R1, T_listar_juegos}

AdminTexts ==
  CreatingTexts \cup SingleShotTexts
    \cup {T_s_cancelar, T_cancelar, T_mid, T_listo}

\* the lines a crear_tabla dialog has accumulated
LinesOf(d) == IF d # Null /\ "lines" \in DOMAIN d.data THEN Len(d.data.lines) ELSE 0

OperatorMessage ==
  \E t \in AdminTexts : Handle(Msg(ADMIN_JID, t)) /\ LinesOf(dialog') <= MaxLines

ClientOrder == \E u \in Users : \E ev \in {Msg(u, T_1), Image(u, T_empty)} : Handle(ev)

NextAdmin == OperatorMessage \/ ClientOrder

SpecAdmin == Init /\ [][NextAdmin]_vars

\* ------------------------------------------------------------------ failed calls
\* Every store call and every send is awaited and rejects when the network or
\* the service fails.  Under SpecFail a handler runs to its end as under Spec,
\* or one of its awaited calls fails and the handler goes on from there as the
\* code does: to the catch clause of its try block, or out to the catch of
\* the messages.upsert loop, which logs the error.
FailTexts == {T_1, T_2, T_hola}

FailEvents(u) == {Msg(u, t) : t \in FailTexts} \cup {Image(u, T_empty)}

HandleFailing(ev) ==
  \E rt \in {Route(variant, Store, ev)} : \E f \in 1..Len(rt.ops) :
     \E r \in {Run(Store, rt.ops, f)} :
        /\ ~Pseudo(rt.ops[f])
        /\ UsesId(rt.ops) => nextReq <= MaxRequests
        /\ Install(r.S)
        /\ last' = [ev |-> ev, route |-> rt.route, outs |-> r.outs, thrown |-> r.thrown,
                  calls |-> r.calls, failed |-> r.failed,
                     pre |-> IF ev.from = ADMIN_JID THEN dialog ELSE sessions[ev.from]]
        /\ scen' = IF ev.from \in Users
                   THEN [scen EXCEPT ![ev.from] = ScenAfter(ev.from, ev)]
                   ELSE scen
        /\ passes' = PassesAfter(r.S)
        /\ UNCHANGED <<variant, inflight, parse>>

ClientMessageHandled == \E u \in Users : \E ev \in FailEvents(u) : Handle(ev)

ClientMessageFailing == \E u \in Users : \E ev \in FailEvents(u) : HandleFailing(ev)

NextFail == ClientMessageHandled \/ ClientMessageFailing

SpecFail == Init /\ [][NextFail]_vars

\* ------------------------------------------------------------------ every dialog kind
\* Under SpecDialogs the operator opens each of the seven dialogs and walks it
\* to its end.  With no dialog open the operator sends a creating command;
\* with one open, an answer, the cancel keyword or a terminator.  A commit may
\* be refused by the store.  The operator's session is followed up to its
\* first change of the catalog.
T_crear_tarjeta ==
  <<"/", "c", "r", "e", "a", "r", " ", "t", "a", "r", "j", "e", "t", "a">>
T_crear_saldo == <<"/", "c", "r", "e", "a", "r", " ", "s", "a", "l", "d", "o">>
T_anadir_juego_a_1 ==
  <<"/", "a", "ñ", "a", "d", "i", "r", " ", "j", "u", "e", "g", "o", " ", "a", " ", "1">>
T_editar_oferta_1_1 ==
  <<"/", "e", "d", "i", "t", "a", "r", " ", "o", "f", "e", "r", "t", "a", " ", "1", " ", "1">>
T_editar_tarjeta_1 ==
  <<"/", "e", "d", "i", "t", "a", "r", " ", "t", "a", "r", "j", "e", "t", "a", " ", "1">>
T_fin == <<"/", "f", "i", "n">>
T_linea_oferta == <<"2", " ", "X", " ", "5", " ", "6">>

OpeningTexts ==
  {T_crear_tarjeta, T_crear_saldo, T_crear_tabla, T_anadir_juego_a_1,
   T_editar_juego_1, T_editar_oferta_1_1, T_editar_tarjeta_1}

AnswerTexts == {T_2, T_linea_oferta, T_listo, T_fin, T_cancelar, T_Cancelar}

\* the offers an anadir_ofertas dialog has accumulated
OffersOf(d) == IF d # Null /\ "offers" \in DOMAIN d.data THEN Len(d.data.offers) ELSE 0

\* the calls that write the catalog
CatalogWrites ==
  {"createGame", "updateGame", "createOffer", "updateOffer", "createMethod", "updateMethod"}

DialogTextsNow == IF dialog = Null THEN OpeningTexts ELSE AnswerTexts

DialogMessage ==
  /\ games = InitGames /\ offers = InitOffers /\ methods = InitMethods
  /\ \E t \in DialogTextsNow :
        /\ Handle(Msg(ADMIN_JID, t))
        /\ LinesOf(dialog') <= MaxLines /\ OffersOf(dialog') <= MaxLines

\* the same with the write of the commit rejected by the store
DialogMessageWriteFails ==
  /\ games = InitGames /\ offers = InitOffers /\ methods = InitMethods
  /\ \E t \in AnswerTexts :
        /\ dialog # Null
        /\ HandleFailing(Msg(ADMIN_JID, t))
        /\ last'.failed \in CatalogWrites

NextDialogs == DialogMessage \/ DialogMessageWriteFails

SpecDialogs == Init /\ [][NextDialogs]_vars

\* ------------------------------------------------------------------ bulk creation
\* Under SpecTable the operator opens the crear_tabla dialog, sends up to
\* MaxTableLines lines and ends it with /listo.  The lines name two new
\* products, a product whose number is taken, or nothing.  A createGame of
\* the loop may be rejected by the network.
MaxTableLines == 3

L_3_C == <<"3", " ", "C">>
L_4_D == <<"4", " ", "D">>
L_1_Z == <<"1", " ", "Z">>
L_x == <<"x">>

TableLines == {L_3_C, L_4_D, L_1_Z, L_x}

TableTextsNow == IF dialog = Null THEN {T_crear_tabla} ELSE TableLines \cup {T_listo}

TableMessage ==
  /\ games = InitGames
  /\ \E t \in TableTextsNow :
        Handle(Msg(ADMIN_JID, t)) /\ LinesOf(dialog') <= MaxTableLines

TableMessageWriteFails ==
  /\ games = InitGames /\ dialog # Null
  /\ HandleFailing(Msg(ADMIN_JID, T_listo))
  /\ last'.failed = "createGame"

NextTable == TableMessage \/ TableMessageWriteFails

SpecTable == Init /\ [][NextTable]_vars

\* ------------------------------------------------------------------ the funnel alone
\* Under SpecFunnel a user walks the funnel with numbers, free text, the
\* keywords and the oferta trigger in two spellings, and sends an image; the
\* operator adds and removes custom fields of product 2, up to MaxFields
\* fields in the catalog.
MaxFields == 2

T_Ofertas == <<"O", "f", "é", "r", "t", "a", "s">>
T_campos_agregar_2_tel ==
  <<"/", "c", "a", "m", "p", "o", "s", " ", "a", "g", "r", "e", "g", "a", "r", " ", "2", " ",
    "t", "e", "l">>

FunnelTexts == {T_1, T_2, T_hola, T_ofertas, T_Ofertas, T_cancelar, T_volver}

FunnelEvents(u) == {Msg(u, t) : t \in FunnelTexts} \cup {Image(u, T_empty)}

FieldTexts == {T_campos_agregar_2_tel, T_campos_quitar_2_id}

FunnelMessage == \E u \in Users : \E ev \in FunnelEvents(u) : Handle(ev)

FieldCommand ==
  \E t \in FieldTexts : Handle(Msg(ADMIN_JID, t)) /\ Cardinality(gfields') <= MaxFields

NextFunnel == FunnelMessage \/ FieldCommand

SpecFunnel == Init /\ [][NextFunnel]_vars

\* ------------------------------------------------------------------ process restart
\* The process keeps the socket and the latest QR code in memory (let sock,
\* let latestQR) and nothing of a conversation: sessions, operator dialogs
\* and orders are rows of the store.  Under SpecRestart the process exits
\* (SIGINT, SIGTERM) and is started again between two handled messages; what
\* the process remembered of its last pass is gone, the store is as it was.
RestartTexts == {T_crear_tabla, L_3_C, T_listo, T_completar_R1}

Restarted == [NoLast EXCEPT !.route = "restart"]

Restart ==
  /\ last.route \notin {"none", "restart"}
  /\ last' = Restarted
  /\ UNCHANGED <<variant, games, offers, methods, gfields, sessions, requests, dialog,
                 files, nextId, nextReq, inflight, parse, scen, passes>>

RestartClient == \E u \in Users : \E ev \in FunnelEvents(u) : Handle(ev)

RestartOperator ==
  \E t \in RestartTexts : Handle(Msg(ADMIN_JID, t)) /\ LinesOf(dialog') <= MaxLines

NextRestart == RestartClient \/ RestartOperator \/ Restart

SpecRestart == Init /\ [][NextRestart]_vars

\* ------------------------------------------------------------------ catalog edits during a pass
\* Under SpecCatalog the operator deletes product 1, its offer 1 and card 1
\* and adds an offer 2 to product 1 while a user goes through the funnel.
\* The operator creates up to MaxCreated rows.
MaxCreated == 1

CatalogTexts ==
  {T_anadir_juego_a_1, T_linea_oferta, T_fin, T_borrar_oferta_1_1, T_borrar_juego_1,
   T_borrar_tarjeta_1}

CatalogEvents(u) == {Msg(u, T_1), Msg(u, T_2), Image(u, T_empty)}

CatalogClient == \E u \in Users : \E ev \in CatalogEvents(u) : Handle(ev)

CatalogOperator ==
  \E t \in CatalogTexts :
     /\ Handle(Msg(ADMIN_JID, t))
     /\ OffersOf(dialog') <= MaxLines /\ nextId' <= FirstFreeId + MaxCreated

NextCatalog == CatalogClient \/ CatalogOperator

SpecCatalog == Init /\ [][NextCatalog]_vars

\* ------------------------------------------------------------------ two users
\* Under SpecPeers a second user has a session of its own; both users go
\* through the funnel, cancel and send the proof, and the operator completes
\* the first order.
Peers == Users \cup {"u2"}

PeerTexts == {T_1, T_cancelar}

PeerEvents(u) == {Msg(u, t) : t \in PeerTexts} \cup {Image(u, T_empty)}

InitPeers ==
  /\ variant \in {"proof", "fields"}
  /\ games = InitGames /\ offers = InitOffers /\ methods = InitMethods
  /\ gfields = InitFields(variant)
  /\ sessions \in [Peers -> {Null, StoredSession}]
  /\ requests = {} /\ dialog = Null /\ files = {}
  /\ nextId = FirstFreeId /\ nextReq = 1
  /\ inflight = [b \in Slots |-> Null]
  /\ last = NoLast
  /\ scen = [u \in Users |-> NullNum]
  /\ passes = [u \in Users |-> 0]
  /\ parse = NoParse

PeerMessage == \E u \in Peers : \E ev \in PeerEvents(u) : Handle(ev)

PeerOperator == Handle(Msg(ADMIN_JID, T_completar_R1))

NextPeers == PeerMessage \/ PeerOperator

SpecPeers == InitPeers /\ [][NextPeers]_vars

\* ------------------------------------------------------------------ overlapping handlers
\* sock.ev.on('messages.upsert', async ...) starts the listener for every
\* batch the transport emits and does not wait for the promise of an earlier
\* call.  Within one call the for loop awaits each message's handler before
\* the next message; two calls run interleaved at their awaits.  A slot holds
\* one call: the messages it has not handled yet and, once the handler of the
\* first of them has done its reads, what it read.  The catalog does not
\* change under SpecConc, so the catalog reads of a handler return the same
\* at any of its awaits.
MaxBatch == 2

ConcEvents ==
  {Msg(u, T_1) : u \in Users}
    \cup {Image(u, T_empty) : u \in Users}
    \cup {Msg(ADMIN_JID, T_completar_R1)}

RECURSIVE Batches(_)
Batches(k) ==
  IF k = 0 THEN {<<>>}
  ELSE Batches(k - 1) \cup
       {Append(q, e) : q \in {x \in Batches(k - 1) : Len(x) = k - 1}, e \in ConcEvents}

\* a messages.upsert event: the listener is called with the batch
Upsert(b, msgs) ==
  /\ inflight[b] = Null /\ msgs # <<>>
  /\ inflight' = [inflight EXCEPT ![b] = [queue |-> msgs, phase |-> "next", snap |-> Null]]
  /\ UNCHANGED <<variant, games, offers, methods, gfields, sessions, requests, dialog,
                 files, nextId, nextReq, last, scen, passes, parse>>

\* The handler of the batch's next message up to its first write:
\* getUserSession (which inserts the row of a new identity) for a user,
\* getAdminDialog and getRequest for the operator.
ReadStore(b) ==
  /\ inflight[b] # Null /\ inflight[b].phase = "next"
  /\ LET ev == inflight[b].queue[1]
         S1 == IF ev.from \in Users
               THEN Run(Store, <<Op("ensureSession", [jid |-> ev.from])>>, 0).S
               ELSE Store
         snap == IF ev.from \in Users
                 THEN [session |-> S1.sessions[ev.from], dialog |-> Null, requests |-> {}]
                 ELSE [session |-> Null, dialog |-> dialog, requests |-> requests]
     IN /\ Install(S1)
        /\ inflight' = [inflight EXCEPT ![b] = [@ EXCEPT !.phase = "run", !.snap = snap]]
  /\ UNCHANGED <<variant, last, scen, passes, parse>>

\* the store as the handler of slot b saw it
View(b) ==
  LET ev == inflight[b].queue[1]
      snap == inflight[b].snap
  IN IF ev.from \in Users
     THEN [Store EXCEPT !.sessions = [@ EXCEPT ![ev.from] = snap.session]]
     ELSE [Store EXCEPT !.dialog = snap.dialog, !.requests = snap.requests]

\* the rest of the handler: its writes and sends, decided by what it read
WriteStore(b) ==
  /\ inflight[b] # Null /\ inflight[b].phase = "run"
  /\ LET ev == inflight[b].queue[1]
         rest == Tail(inflight[b].queue)
     IN \E rt \in {Route(variant, View(b), ev)} : \E r \in {Run(Store, rt.ops, 0)} :
          /\ UsesId(rt.ops) => nextReq <= MaxRequests
          /\ Install(r.S)
          /\ last' = [ev |-> ev, route |-> rt.route, outs |-> r.outs, thrown |-> r.thrown,
                  calls |-> r.calls, failed |-> r.failed,
                       pre |-> IF ev.from = ADMIN_JID THEN inflight[b].snap.dialog
                               ELSE inflight[b].snap.session]
          /\ inflight' = [inflight EXCEPT ![b] =
                            IF rest = <<>> THEN Null
                            ELSE [queue |-> rest, phase |-> "next", snap |-> Null]]
          /\ passes' = PassesAfter(r.S)
  /\ UNCHANGED <<variant, scen, parse>>

NextConc ==
  \/ \E b \in Slots : \E msgs \in Batches(MaxBatch) : Upsert(b, msgs)
  \/ \E b \in Slots : ReadStore(b)
  \/ \E b \in Slots : WriteStore(b)

SpecConc == Init /\ [][NextConc]_vars

\* ------------------------------------------------------------------ rendering and parsing
\* The menu renders an index with numberToEmoji and reads the reply with
\* emojiToNumber.  SpecParse applies the two functions to bounded inputs:
\* Render a number, Parse what was rendered or what was typed.
ParseChars == {"0", "1", "a", VS16, TEN}

RECURSIVE TextsUpTo(_)
TextsUpTo(k) ==
  IF k = 0 THEN {<<>>}
  ELSE TextsUpTo(k - 1) \cup
       {Append(t, c) : t \in {x \in TextsUpTo(k - 1) : Len(x) = k - 1}, c \in ParseChars}

InitParse ==
  /\ variant = "proof"
  /\ games = InitGames /\ offers = InitOffers /\ methods = InitMethods
  /\ gfields = InitFields(variant)
  /\ sessions = [u \in Users |-> Null]
  /\ requests = {} /\ dialog = Null /\ files = {}
  /\ nextId = FirstFreeId /\ nextReq = 1
  /\ inflight = [b \in Slots |-> Null]
  /\ last = NoLast
  /\ scen = [u \in Users |-> NullNum]
  /\ passes = [u \in Users |-> 0]
  /\ parse \in {[stage |-> "input", n |-> n, text |-> t, res |-> NullNum] :
                   n \in 0..MaxIndex, t \in TextsUpTo(MaxParseLen)}

NotParse ==
  <<variant, games, offers, methods, gfields, sessions, requests, dialog,
    files, nextId, nextReq, inflight, last, scen, passes>>

\* sendMainMenu and the offer lists: numberToEmoji(g.number)
Render ==
  /\ parse.stage = "input"
  /\ parse' = [parse EXCEPT !.stage = "rendered", !.text = numberToEmoji(parse.n)]
  /\ UNCHANGED NotParse

\* handleClientMessage: emojiToNumber(text), of a typed text or of the glyph
\* the menu showed
Parse ==
  /\ parse.stage \in {"input", "rendered"}
  /\ parse' = [parse EXCEPT !.stage = IF parse.stage = "rendered" THEN "roundtrip" ELSE "typed",
                            !.res = emojiToNumber(parse.text)]
  /\ UNCHANGED NotParse

NextParse == Render \/ Parse

SpecParse == InitParse /\ [][NextParse]_vars

\* ------------------------------------------------------------------ C7
\* C7: for every n in the supported range 0..10, emojiToNumber applied to
\* numberToEmoji(n), the single glyph of 10 included, is n.
C7_RoundTrip ==
  (parse.stage = "roundtrip" /\ parse.n \in 0..10) => parse.res = parse.n

\* what the code does: the keycap digits 0..9 come back, the glyph of 10 holds
\* no ASCII digit and parses to null
C7_TenParsesToNull ==
  /\ parse.stage = "roundtrip" /\ parse.n = 10
  /\ parse.text = <<TEN>> /\ parse.res = NullNum

\* ------------------------------------------------------------------ observations
\* slot b holds a handler of jid that has read the store and not yet written
Running(b, jid) ==
  inflight[b] # Null /\ inflight[b].phase = "run" /\ inflight[b].queue[1].from = jid

\* the kinds of the messages the last handler sent to an identity, in order
KindsTo(jid) ==
  LET to == SelectSeq(last.outs, LAMBDA o : o.to = jid)
  IN  [i \in 1..Len(to) |-> to[i].kind]

SentTo(jid, kind) == \E i \in 1..Len(last.outs) : last.outs[i].to = jid /\ last.outs[i].kind = kind

SentAbout(jid, kind, id) ==
  \E i \in 1..Len(last.outs) :
     last.outs[i].to = jid /\ last.outs[i].kind = kind /\ last.outs[i].arg.id = id

\* The step is the end of a handler, which sets last: every step where no
\* listener call is in flight, and a WriteStore step where one is.
HandlerEnds ==
  \/ \A b \in Slots : inflight[b] = Null /\ inflight'[b] = Null
  \/ \E b \in Slots :
        inflight[b] # Null /\ inflight[b].phase = "run" /\ inflight'[b] # inflight[b]

CatalogAsStarted ==
  games = InitGames /\ offers = InitOffers /\ methods = InitMethods

\* ------------------------------------------------------------------ C1
\* C1: from a session this process created (step idle), with product 1 holding
\* offer 1 and no custom field and card 1 in the catalog, the inputs "1", "1",
\* "1", "1" and then an image end with a pending order of that user, its
\* notification sent to the operator and a confirmation carrying the order's id
\* sent to the user.
C1_ScenarioCreatesOrder ==
  \A u \in Users :
     (variant = "proof" /\ scen[u] = 5 /\ CatalogAsStarted)
       => \E r \in requests :
             /\ r.user_jid = u /\ r.status = "pending"
             /\ SentAbout(ADMIN_JID, "newRequest", r.id)
             /\ SentAbout(u, "requestSent", r.id)

\* what the code does: the session is still idle after the five inputs, the
\* image was answered with the main menu and there is no order
C1_StillIdle ==
  \E u \in Users :
     /\ variant = "proof" /\ scen[u] = 5 /\ CatalogAsStarted
     /\ sessions[u] = NewSession /\ requests = {}
     /\ last.ev = Image(u, T_empty) /\ KindsTo(u) = <<"mainMenu">>

\* ------------------------------------------------------------------ C2
HasKind(outs, jid, kind) ==
  \E i \in 1..Len(outs) : outs[i].to = jid /\ outs[i].kind = kind

Ids(rs) == {r.id : r \in rs}

\* the steps whose handler finalizes a pass
FinalSteps ==
  IF variant = "proof" THEN {"awaiting_screenshot"}
  ELSE {"awaiting_offers", "awaiting_fields"}

KeywordTexts == {T_cancelar, T_Cancelar, T_volver, T_ofertas}

\* The step just taken handled a message of u in a finalizing step and reset
\* the session to idle, and the reset is neither an escape by keyword nor the
\* abandonment of a pass whose product has disappeared.
CompletesPass(u) ==
  /\ HandlerEnds /\ last'.ev.from = u
  /\ sessions[u] # Null /\ sessions[u].step \in FinalSteps
  /\ last'.ev.text \notin KeywordTexts
  /\ sessions'[u].step = "idle"
  /\ ~HasKind(last'.outs, u, "gameGone")

OrdersOf(rs, u) == {r \in rs : r.user_jid = u}

\* C2: each completed funnel pass creates exactly one order: the step that
\* completes a pass creates one order, pending and owned by the user (never
\* zero), and a user never has more orders than passes started (never two).
C2_OneOrderPerPass ==
  [][\A u \in Users :
       /\ CompletesPass(u) =>
            /\ Cardinality(Ids(requests') \ Ids(requests)) = 1
            /\ \A r \in requests' :
                  r.id \notin Ids(requests) => r.status = "pending" /\ r.user_jid = u
       /\ Cardinality(OrdersOf(requests', u)) <= passes'[u]]_vars

\* what the code does: the send that follows the insert failed, the session
\* was left in awaiting_fields, and the user's next message inserted a second
\* order for the same pass
C2_TwoOrdersOnePass ==
  \E u \in Users :
     /\ variant = "fields" /\ passes[u] = 1
     /\ Cardinality(OrdersOf(requests, u)) = 2
     /\ \A r \in OrdersOf(requests, u) : r.status = "pending"
     /\ sessions[u].step = "idle"

\* ------------------------------------------------------------------ C3
CompletarTexts == {T_completar_R1, T_completar_R2, T_completar_R9}

\* the identifier a /completar text of the alphabet names
CompletarId(t) ==
  CASE t = T_completar_R1 -> RequestId(1)
    [] t = T_completar_R2 -> RequestId(2)
    [] OTHER -> RequestId(9)

NoMutation ==
  UNCHANGED <<games, offers, methods, gfields, sessions, requests, dialog, files>>

OutKinds(outs) == [i \in 1..Len(outs) |-> <<outs[i].to, outs[i].kind>>]

\* C3: /completar <id> on a pending order sets it to completed and sends the
\* completion notice to the order's owner; on a completed order it is rejected
\* as already completed, changes nothing and sends the owner nothing; on an
\* unknown id it is rejected as not found and changes nothing.
C3_Completar ==
  [][\A t \in CompletarTexts :
       (HandlerEnds /\ last'.ev = Msg(ADMIN_JID, t) /\ dialog = Null) =>
         LET hit == {r \in requests : r.id = CompletarId(t)}
         IN CASE hit = {} ->
                   /\ NoMutation
                   /\ OutKinds(last'.outs) = <<<<ADMIN_JID, "requestNotFound">>>>
              [] \E r \in hit : r.status = "pending" ->
                   /\ requests' = (requests \ hit)
                                     \cup {completeRequestRow(r) : r \in hit}
                   /\ UNCHANGED <<games, offers, methods, gfields, sessions, dialog, files>>
                   /\ \A r \in hit :
                         OutKinds(last'.outs) =
                           <<<<r.user_jid, "completed">>, <<ADMIN_JID, "markedCompleted">>>>
              [] OTHER ->
                   /\ NoMutation
                   /\ OutKinds(last'.outs) = <<<<ADMIN_JID, "alreadyCompleted">>>>]_vars

\* the second /completar of an order has just been rejected
C3_SecondRejected ==
  \E t \in CompletarTexts :
     /\ last.ev = Msg(ADMIN_JID, t)
     /\ \E r \in requests : r.id = CompletarId(t) /\ r.status = "completed"
     /\ OutKinds(last.outs) = <<<<ADMIN_JID, "alreadyCompleted">>>>

\* ------------------------------------------------------------------ C4
CancelTexts == {T_cancelar, T_Cancelar}

\* C4: in every step of both variants the cancel keyword leaves the session
\* idle with product, offers, field values, current field, payment type,
\* payment index and pending request id cleared, and sends the main menu.
C4_CancelResets ==
  \A u \in Users :
     (last.ev.from = u /\ last.ev.text \in CancelTexts) =>
        /\ sessions[u] = NewSession
        /\ KindsTo(u) = IF games = {} THEN <<"noGames">> ELSE <<"mainMenu">>
        /\ KindsTo(ADMIN_JID) = <<>>

\* cancel was sent while the screenshot of a generated request was awaited
C4_CancelAtScreenshot ==
  \E u \in Users :
     /\ last.ev.from = u /\ last.ev.text \in CancelTexts
     /\ last.pre # Null /\ last.pre.step = "awaiting_screenshot"
     /\ last.pre.request_id # Null /\ last.pre.selected_payment_type = "card"
     /\ sessions[u] = NewSession /\ KindsTo(u) = <<"mainMenu">>

\* ------------------------------------------------------------------ C5
\* C5: no two handlers of the same identity overlap: while a handler of an
\* identity has read the store and not yet finished its writes, no handler
\* of another batch has started on a message of that identity.
C5_NoOverlap ==
  \A jid \in Users \cup {ADMIN_JID} : \A b1, b2 \in Slots :
     (Running(b1, jid) /\ Running(b2, jid)) => b1 = b2

\* what the code does: two calls of the listener both hold a handler of the
\* same user that has read the session and written nothing yet
C5_TwoInFlight ==
  \E u \in Users : \E b1, b2 \in Slots :
     /\ b1 # b2 /\ Running(b1, u) /\ Running(b2, u)
     /\ inflight[b1].snap.session = inflight[b2].snap.session

\* ------------------------------------------------------------------ C6
\* the indices the texts of the alphabet hold, as a reader counts them
IndicesIn(t) ==
  CASE t = T_1 -> <<1>> [] t = T_2 -> <<2>> [] t = T_1c9 -> <<1, 9>>
    [] t = T_1s2 -> <<1, 2>> [] OTHER -> <<>>

\* the offer indices of the product with this menu index, in the catalog now
OfferNumbers(gameNumber) ==
  {o.number : o \in {x \in offers : \E g \in games : g.number = gameNumber /\ g.id = x.game_id}}

InvalidIn(t, gameNumber) ==
  SelectSeq(IndicesIn(t), LAMBDA n : n \notin OfferNumbers(gameNumber))

\* the last message was handled in awaiting_offers and held an index that
\* names no offer of the selected product
InvalidOfferChoice(u) ==
  /\ variant = "fields" /\ last.ev.from = u
  /\ last.pre # Null /\ last.pre.step = "awaiting_offers"
  /\ InvalidIn(last.ev.text, last.pre.selected_game) # <<>>

Rejected(u) ==
  /\ sessions[u] = last.pre
  /\ Len(last.outs) = 1 /\ last.outs[1].to = u
  /\ last.outs[1].kind = "offerDoesNotExist"
  /\ last.outs[1].arg = NumToString(InvalidIn(last.ev.text, last.pre.selected_game)[1])

GamesUnchanged == UNCHANGED <<games, offers, methods, gfields>>

\* C8: /cancelar sent while a dialog is active deletes the dialog and is
\* answered with the confirmation of the cancellation; the text is not taken
\* as input of the dialog.
C8_SlashCancelEndsDialog ==
  [][(last'.ev = Msg(ADMIN_JID, T_s_cancelar) /\ dialog # Null) =>
       /\ dialog' = Null
       /\ OutKinds(last'.outs) = <<<<ADMIN_JID, "dialogCancelled">>>>
       /\ GamesUnchanged]_vars

\* what the code does: the dialog is still open and holds "/cancelar" as a line
C8_SlashCancelTakenAsLine ==
  /\ last.ev = Msg(ADMIN_JID, T_s_cancelar)
  /\ last.pre # Null /\ last.pre.command = "crear_tabla"
  /\ dialog # Null /\ dialog.command = "crear_tabla"
  /\ dialog.data.lines = last.pre.data.lines \o <<T_s_cancelar>>
  /\ OutKinds(last.outs) = <<<<ADMIN_JID, "lineAdded">>>>

\* ------------------------------------------------------------------ C9
KindOf(t) == IF t = T_crear_tabla THEN "crear_tabla" ELSE "editar_juego"

\* the step handles a creating command while a dialog of another kind is active
CreatingOverOther(t) ==
  /\ last'.ev = Msg(ADMIN_JID, t)
  /\ dialog # Null /\ dialog.command # KindOf(t)

\* C9 as the claim states it: the active dialog is replaced by a dialog of
\* the commanded kind at step 1.
C9_Replaced ==
  [][\A t \in CreatingTexts :
       CreatingOverOther(t) =>
         dialog' # Null /\ dialog'.command = KindOf(t) /\ dialog'.step = 1]_vars

\* C9 as amended: the text of the creating command is taken as input by the
\* active dialog; no dialog of the commanded kind is opened.  An open
\* crear_tabla keeps the text as a line; an open editar_juego takes it as the
\* new name, writes it and ends.
C9_ConsumedByActive ==
  [][\A t \in CreatingTexts :
       CreatingOverOther(t) =>
         /\ last'.route = "dialog"
         /\ dialog' = Null \/ dialog'.command = dialog.command
         /\ dialog.command = "crear_tabla" =>
               /\ dialog' = [dialog EXCEPT !.data.lines = Append(@, t)]
               /\ GamesUnchanged
         /\ dialog.command = "editar_juego" =>
               /\ dialog' = Null
               /\ games' = {IF g.id = dialog.data.game_id THEN [g EXCEPT !.name = t] ELSE g :
                              g \in games}]_vars

\* /editar juego 1 was sent into an open crear_tabla and is now one of its lines
C9_CommandKeptAsLine ==
  /\ last.ev = Msg(ADMIN_JID, T_editar_juego_1)
  /\ last.pre # Null /\ last.pre.command = "crear_tabla"
  /\ dialog # Null /\ dialog.command = "crear_tabla"
  /\ dialog.data.lines = <<T_editar_juego_1>>

\* ------------------------------------------------------------------ C10
\* the step handles an operator message while a dialog is active
InDialog == last'.ev.from = ADMIN_JID /\ dialog # Null

\* no single-shot command took effect: nothing was deleted, no order was
\* completed, no list was sent
NoSingleShot ==
  /\ Ids(games') = Ids(games) /\ Ids(offers') = Ids(offers) /\ methods' = methods
  /\ gfields' = gfields /\ requests' = requests
  /\ \A i \in 1..Len(last'.outs) :
        last'.outs[i].kind \notin {"gameList", "offerList", "methodList", "fieldList",
                                   "markedCompleted", "completed", "gameDeleted"}

\* C10 as the claim states it: every operator message sent while a dialog is
\* active is consumed by the dialog and no single-shot command takes effect.
C10_DialogConsumesAll ==
  [][InDialog => (last'.route = "dialog" /\ NoSingleShot)]_vars

\* C10 as amended: the same for every message but /mid, which is answered
\* with the sender's identity before the dialog is looked up and changes
\* nothing, the dialog included.
C10_DialogConsumesAllButMid ==
  [][InDialog =>
       /\ NoSingleShot
       /\ IF last'.ev.text = T_mid
          THEN /\ last'.route = "mid" /\ NoMutation
               /\ OutKinds(last'.outs) = <<<<ADMIN_JID, "yourId">>>>
          ELSE last'.route = "dialog"]_vars

\* /completar of a pending order was sent into an open dialog and the order
\* is still pending
C10_CompletarNotExecuted ==
  /\ last.ev = Msg(ADMIN_JID, T_completar_R1) /\ last.pre # Null
  /\ last.route = "dialog"
  /\ \E r \in requests : r.id = RequestId(1) /\ r.status = "pending"

\* ------------------------------------------------------------------ C11
\* the step handles the cancel keyword sent by the operator into an open dialog
CancelInDialog == InDialog /\ last'.ev.text \in CancelTexts

\* C11: at every step of every dialog kind, an operator message equal to the
\* cancel keyword deletes the dialog and confirms the cancellation before
\* any handling of the kind: the step handler is not run (the confirmation
\* is the only message, the only call is the deletion), nothing is written
\* to the catalog and no dialog remains.
C11_CancelBeforeDispatch ==
  [][CancelInDialog =>
       /\ dialog' = Null
       /\ last'.route = "dialog"
       /\ OutKinds(last'.outs) = <<<<ADMIN_JID, "dialogCancelled">>>>
       /\ last'.calls = <<"clearDialog">>
       /\ GamesUnchanged /\ nextId' = nextId /\ requests' = requests]_vars

\* the offer edit was cancelled at its last question, capitalised and padded
C11_CancelledAtLastStep ==
  /\ last.ev = Msg(ADMIN_JID, T_Cancelar)
  /\ last.pre # Null /\ last.pre.command = "editar_oferta" /\ last.pre.step = 4
  /\ dialog = Null /\ last.calls = <<"clearDialog">>

\* ------------------------------------------------------------------ C12
\* the step is a terminal step of the open dialog: the cancel keyword, the
\* terminator of the dialog's kind, or a step that attempted its commit
Terminator(d, text) ==
  \/ d.command = "crear_tabla" /\ ToLower(text) = W_s_listo
  \/ d.command = "anadir_ofertas" /\ ToLower(text) = W_s_fin

CommitAttempted(l) ==
  l.failed \in CatalogWrites \/ \E i \in 1..Len(l.calls) : l.calls[i] \in CatalogWrites

TerminalStep ==
  /\ InDialog /\ last'.route = "dialog"
  /\ \/ CancelInDialog
     \/ Terminator(dialog, last'.ev.text)
     \/ CommitAttempted(last')

\* C12: the operator has at most one dialog (the store keeps one row per
\* admin_jid, which the model's single dialog value is), and after the
\* terminal step of any dialog kind no dialog exists, whether or not the
\* commit to the catalog succeeded.
C12_NoDialogAfterTerminal == [][TerminalStep => dialog' = Null]_vars

\* the store refused the commit of a dialog, the operator was told and the
\* dialog is gone
C12_FailedCommitEndsDialog ==
  /\ last.pre # Null /\ last.failed \in CatalogWrites
  /\ SentTo(ADMIN_JID, "saveError") /\ CatalogAsStarted
  /\ dialog = Null

\* ------------------------------------------------------------------ C13
\* the step handles /listo of a table of three lines, the second malformed
\* and the other two naming products, and no call of the handler is rejected
ListoSecondMalformed ==
  /\ InDialog /\ dialog.command = "crear_tabla"
  /\ ToLower(last'.ev.text) = W_s_listo /\ last'.failed = "none"
  /\ Len(dialog.data.lines) = 3
  /\ WellFormedLine(dialog.data.lines[1]) /\ ~WellFormedLine(dialog.data.lines[2])
  /\ WellFormedLine(dialog.data.lines[3])

\* the messages of the handler of the given kind
OutsOfKind(outs, kind) == {i \in 1..Len(outs) : outs[i].kind = kind}

\* C13: on the terminator of the bulk creation each line is attempted on its
\* own: with three lines of which the second is malformed, exactly two
\* products are created, exactly one failure is reported to the operator,
\* the summary with the count of successes is sent and the dialog deleted.
C13_BulkReportsEachFailure ==
  [][ListoSecondMalformed =>
       /\ Cardinality(games') = Cardinality(games) + 2
       /\ Cardinality(OutsOfKind(last'.outs, "gameCreateError")) = 1
       /\ Len(last'.outs) = 2
       /\ last'.outs[Len(last'.outs)].kind = "gamesCreated"
       /\ last'.outs[Len(last'.outs)].arg = NumToString(2)
       /\ dialog' = Null]_vars

\* the table "3 C", "x", "4 D" was committed: two products, the summary
\* says 2, and the summary is the only message
C13_MalformedLineSilent ==
  /\ last.ev = Msg(ADMIN_JID, T_listo) /\ last.pre # Null
  /\ last.pre.command = "crear_tabla" /\ last.pre.data.lines = <<L_3_C, L_x, L_4_D>>
  /\ Cardinality(games) = Cardinality(InitGames) + 2
  /\ OutKinds(last.outs) = <<<<ADMIN_JID, "gamesCreated">>>>
  /\ last.outs[1].arg = NumToString(2)
  /\ dialog = Null

\* ------------------------------------------------------------------ C14
\* the positions of the notifications of order id among the messages
Notifications(outs, id) ==
  {i \in 1..Len(outs) :
     outs[i].to = ADMIN_JID /\ outs[i].kind = "newRequest" /\ outs[i].arg.id = id}

\* the ids of the orders the messages notify the operator of
NotifiedIds(outs) ==
  {outs[i].arg.id : i \in {j \in 1..Len(outs) :
                             outs[j].to = ADMIN_JID /\ outs[j].kind = "newRequest"}}

\* C14: every order created comes with exactly one notification to the
\* operator that carries its id: when a handler has ended, the orders it
\* created are the orders it notified, each once.
C14_OrderIffNotified ==
  [][HandlerEnds =>
       /\ NotifiedIds(last'.outs) = Ids(requests') \ Ids(requests)
       /\ \A id \in NotifiedIds(last'.outs) :
             Cardinality(Notifications(last'.outs, id)) = 1]_vars

\* an order was inserted, the send of its notification was rejected and the
\* handler has ended: the order is pending and the operator was never told
C14_OrderWithoutNotification ==
  \E r \in requests :
     /\ r.status = "pending" /\ last.ev.from = r.user_jid
     /\ last.calls # <<>> /\ last.calls[Len(last.calls)] \in {"createRequest", "createRequestRid"}
     /\ last.failed \in {"send", "sendRid"}
     /\ NotifiedIds(last.outs) = {}
     /\ Cardinality(requests) = 1

\* ------------------------------------------------------------------ C15
\* the row r2 is the row r with its status moved from pending to completed
\* and nothing else changed
OnlyStatusMoved(r, r2) ==
  r.status = "pending" /\ r2 = [r EXCEPT !.status = "completed"]

\* the row r2 is the row r completed: status completed, the completion time
\* written, every other field as it was
Completed(r, r2) ==
  /\ r2.status = "completed" /\ r2.completed_at # NullNum
  /\ r2 = [r EXCEPT !.status = "completed", !.completed_at = r2.completed_at]

\* C15 as the claim states it: an order's status only moves from pending to
\* completed, never back, and no step changes any other field of an order
\* that exists (nor removes the order).
C15_OnlyStatusChanges ==
  [][\A r \in requests :
       \E r2 \in requests' : r2.id = r.id /\ (r2 = r \/ OnlyStatusMoved(r, r2))]_vars

\* C15 as amended: the same, except that the update that completes an order
\* also writes its completion time.
C15_OnlyCompletionChanges ==
  [][\A r \in requests :
       \E r2 \in requests' : r2.id = r.id /\ (r2 = r \/ Completed(r, r2))]_vars

\* an order was completed, and afterwards the product it names was deleted
\* from the catalog: the order still names it
C15_CompletedOutlivesProduct ==
  \E r \in requests :
     /\ r.status = "completed" /\ r.completed_at # NullNum
     /\ ~\E g \in games : g.name = r.game_name
     /\ last.ev = Msg(ADMIN_JID, T_borrar_juego_1)

\* ------------------------------------------------------------------ C16
\* C16: every session whose step is idle has no selected product, no
\* selected offers, no field values, no payment selection and no pending
\* order id, whatever path brought it to idle: the row is as it was inserted.
C16_IdleIsClean ==
  \A u \in Users : (sessions[u] # Null /\ sessions[u].step = "idle") => sessions[u] = NewSession

\* the user chose a product, the operator deleted it, and the user's next
\* choice was answered with "product not found": the session is idle and
\* still holds the number of the deleted product
C16_IdleWithStaleProduct ==
  \E u \in Users :
     /\ last.ev.from = u /\ KindsTo(u) = <<"gameGone">>
     /\ last.pre.step \in {"awaiting_offer", "awaiting_offers"}
     /\ sessions[u].step = "idle" /\ sessions[u].selected_game = 1
     /\ ~\E g \in games : g.number = 1

\* ------------------------------------------------------------------ C17
\* the steps that take one index: of a product, of an offer of the selected
\* product, of a payment method of the selected type
IndexSteps == {"awaiting_game", "awaiting_offer", "awaiting_payment_choice"}

\* the text holds one index and, in the catalog now, the index names an item
\* the step of session s can select: a product that has offers, an offer of
\* the selected product, a method of the selected type
ValidIndex(s, t) ==
  LET ns == IndicesIn(t)
  IN /\ Len(ns) = 1
     /\ CASE s.step = "awaiting_game" -> OfferNumbers(ns[1]) # {}
          [] s.step = "awaiting_offer" -> ns[1] \in OfferNumbers(s.selected_game)
          [] OTHER -> \E m \in methods :
                         m.type = s.selected_payment_type /\ m.number = ns[1]

\* the step handles a message of u in an index-taking step whose text is no
\* keyword and is unparsable, names no item, or names a product without
\* offers
BadIndexInput(u) ==
  /\ last'.ev.from = u /\ sessions[u] # Null /\ sessions[u].step \in IndexSteps
  /\ last'.ev.text \notin KeywordTexts
  /\ ~ValidIndex(sessions[u], last'.ev.text)

CorrectivePrompts ==
  {"invalidNumber", "gameNotFound", "noOffers", "offerNotFound", "methodNotFound"}

\* the session row is as it was and the one message sent is a corrective
\* prompt to the user
Reprompted(u) ==
  /\ sessions'[u] = sessions[u]
  /\ Len(last'.outs) = 1 /\ last'.outs[1].to = u
  /\ last'.outs[1].kind \in CorrectivePrompts

\* C17 as the claim states it: in the index-taking steps, input that is
\* unparsable, matches no catalog item or names a product with zero offers
\* leaves the step and the selection as they are and sends a corrective
\* prompt.
C17_BadIndexReprompts ==
  [][\A u \in Users : BadIndexInput(u) => Reprompted(u)]_vars

\* the offer step of a session whose selected product is no longer in the
\* catalog, and an input that holds a number
OfferOfDeletedProduct(u) ==
  /\ sessions[u].step = "awaiting_offer"
  /\ ~\E g \in games : g.number = sessions[u].selected_game
  /\ ~Falsy(emojiToNumber(last'.ev.text))

\* C17 as amended: the same, except in the offer step once the selected
\* product has been deleted: an input that holds a number is then answered
\* with "product not found" and the step is reset to idle, the selection
\* kept.
C17_BadIndexRepromptsWhileProductExists ==
  [][\A u \in Users :
       BadIndexInput(u) =>
         IF OfferOfDeletedProduct(u)
         THEN /\ sessions'[u] = [sessions[u] EXCEPT !.step = "idle"]
              /\ OutKinds(last'.outs) = <<<<u, "gameGone">>>>
         ELSE Reprompted(u)]_vars

\* product 1 has lost its only offer; the user asked for product 1 and was
\* told it has no offers, the session still at the product step
C17_NoOffersReprompted ==
  \E u \in Users :
     /\ last.ev = Msg(u, T_1) /\ last.pre # Null /\ last.pre.step = "awaiting_game"
     /\ (\E g \in games : g.number = 1) /\ OfferNumbers(1) = {}
     /\ KindsTo(u) = <<"noOffers">>
     /\ sessions[u] = last.pre

\* ------------------------------------------------------------------ C19
\* the step handles a message of u in awaiting_screenshot that is no keyword
WhileAwaitingScreenshot(u) ==
  /\ last'.ev.from = u /\ sessions[u] # Null /\ sessions[u].step = "awaiting_screenshot"
  /\ last'.ev.text \notin KeywordTexts

\* nothing happened but the re-prompt
OnlyReprompted(u) ==
  /\ sessions'[u] = sessions[u] /\ files' = files /\ requests' = requests
  /\ OutKinds(last'.outs) = <<<<u, "needImage">>>>

\* C19 as the claim states it: in awaiting_screenshot a message that carries
\* no image leaves the session unchanged, stores no file, creates no order,
\* sends no notification to the operator, and re-prompts the user.
C19_NoImageReprompts ==
  [][\A u \in Users :
       (WhileAwaitingScreenshot(u) /\ ~last'.ev.image) => OnlyReprompted(u)]_vars

\* C19 as amended: the same for a message that carries neither an image nor
\* a document.
C19_NoAttachmentReprompts ==
  [][\A u \in Users :
       (WhileAwaitingScreenshot(u) /\ ~last'.ev.image /\ ~last'.ev.document)
         => OnlyReprompted(u)]_vars

\* a text was sent instead of the screenshot and answered with the re-prompt
C19_TextInsteadOfScreenshot ==
  \E u \in Users :
     /\ last.ev = Msg(u, T_hola) /\ last.pre # Null /\ last.pre.step = "awaiting_screenshot"
     /\ sessions[u] = last.pre /\ KindsTo(u) = <<"needImage">>
     /\ requests = {} /\ files = {}

\* ------------------------------------------------------------------ C18
\* a call of the handler that is no send was rejected: a read or a write of
\* the store or of the bucket
StoreCallFailed(l) == l.failed \notin {"none", "send", "sendRid", "sendCount"}

\* the messages that tell the sender that something failed
FailureReports == {"screenshotError", "internalError", "saveError"}

\* C18: if a store call fails while a message of a user is being handled,
\* the failure is reported to the sender and the session is left exactly as
\* it was before the message.
C18_StoreFailureReported ==
  [][\A u \in Users :
       (last'.ev.from = u /\ sessions[u] # Null /\ StoreCallFailed(last')) =>
         /\ sessions'[u] = sessions[u]
         /\ \E i \in 1..Len(last'.outs) :
               last'.outs[i].to = u /\ last'.outs[i].kind \in FailureReports]_vars

\* the insert of the order was rejected after the session had been moved to
\* the next step: the error went to the listener's catch, the user was told
\* nothing and the session is not as it was
C18_SilentPartialWrite ==
  \E u \in Users :
     /\ last.ev.from = u /\ last.pre # Null
     /\ last.failed = "createRequestRid" /\ last.thrown
     /\ last.calls[Len(last.calls)] = "updSession"
     /\ sessions[u] # last.pre /\ sessions[u].step = "awaiting_fields"
     /\ last.outs = <<>>

\* ------------------------------------------------------------------ C20
\* the step handles the cancel keyword of u whose session is idle
CancelWhileIdle(u) ==
  /\ last'.ev.from = u /\ last'.ev.text \in CancelTexts
  /\ sessions[u] # Null /\ sessions[u].step = "idle"

Wrote(l, call) == \E i \in 1..Len(l.calls) : l.calls[i] = call

\* C20: cancel sent while the session is already idle performs no write to
\* the session: the row is identical before and after, and the only effect
\* is that the main menu is sent.
C20_CancelWhileIdleWritesNothing ==
  [][\A u \in Users :
       CancelWhileIdle(u) =>
         /\ ~Wrote(last', "updSession")
         /\ sessions'[u] = sessions[u]
         /\ OutKinds(last'.outs) = <<<<u, "mainMenu">>>>]_vars

\* cancel was sent to a session that was idle with every selection empty,
\* and the handler updated the row all the same
C20_IdleRowRewritten ==
  \E u \in Users :
     /\ last.ev = Msg(u, T_cancelar) /\ last.pre = NewSession
     /\ Wrote(last, "updSession") /\ sessions[u] = NewSession
     /\ KindsTo(u) = <<"mainMenu">>

\* ------------------------------------------------------------------ C21
\* the spellings of the trigger word in the alphabet: plain, and capitalised
\* with an accent
TriggerTexts == {T_ofertas, T_Ofertas}

\* the step handles a trigger text of u in the variant that has the trigger
TriggerSent(u) ==
  /\ variant = "fields" /\ last'.ev.from = u /\ last'.ev.text \in TriggerTexts
  /\ sessions[u] # Null

WroteSession(l) == Wrote(l, "updSession") \/ Wrote(l, "updSessionRid")

\* C22: one session per user identity: the first message of an identity
\* creates its row with step idle, and no later message, cancel or
\* completion deletes the row or puts another in its place: a handler that
\* makes no update leaves the row as it was, and the operator's messages
\* leave every session as it was.
C22_OneSessionPerUser ==
  [][/\ \A u \in Users :
          last'.ev.from = u =>
            IF sessions[u] = Null THEN sessions'[u] = NewSession
            ELSE /\ sessions'[u] # Null
                 /\ ~WroteSession(last') => sessions'[u] = sessions[u]
     /\ last'.ev.from \notin Users => sessions' = sessions]_vars

\* an identity's first message was "1": its row now exists, in idle, and
\* the number was answered with the main menu
C22_CreatedByFirstMessage ==
  \E u \in Users :
     /\ last.ev = Msg(u, T_1) /\ last.pre = Null
     /\ last.calls = <<"ensureSession">>
     /\ sessions[u] = NewSession /\ KindsTo(u) = <<"mainMenu">>

\* ------------------------------------------------------------------ C23
\* what a pass handling ev does to the store it finds, and what it sends
HandledFromStore(ev) == Run(Store, Route(variant, Store, ev).ops, 0)

OfferSteps == {"awaiting_offer", "awaiting_offers"}

OfferRefusals ==
  {"invalidNumber", "gameGone", "offerNotFound", "noNumbers", "offerDoesNotExist"}

\* the step handled a message of u in the offer step and refused nothing: the
\* offers the text names were selected
OfferSelected(u) ==
  /\ last'.ev.from = u /\ sessions[u] # Null /\ sessions[u].step \in OfferSteps
  /\ last'.ev.text \notin KeywordTexts
  /\ \A k \in OfferRefusals : ~HasKind(last'.outs, u, k)

\* the custom fields of the product u has selected
FieldsOfSelected(u) ==
  getGameFields(Store, GameByNumber(Store, sessions[u].selected_game).id)

\* the session is at the first field and the user was asked for it
AtFirstField(u) ==
  /\ sessions'[u].step = "awaiting_fields" /\ sessions'[u].current_field = 0
  /\ sessions'[u].field_values = FVEmpty
  /\ OutKinds(last'.outs) = <<<<u, "askField">>>>
  /\ last'.outs[1].arg = FieldsOfSelected(u)[1].field_name
  /\ requests' = requests

\* C24 as the claim states it: after a successful offer selection the session
\* is in the field step at field 0 when the product has a custom field and in
\* the step of the payment method type otherwise.
C24_FieldsOrPaymentType ==
  [][\A u \in Users :
       OfferSelected(u) =>
         IF FieldsOfSelected(u) # <<>> THEN AtFirstField(u)
         ELSE sessions'[u].step = "awaiting_payment_method"]_vars

\* C24, amended: in the variant with custom fields the session is in the
\* field step at field 0, asked for the first field, when the product has a
\* custom field, and otherwise the order is created at once, the operator
\* notified and the session idle; in the variant with the proof of payment
\* the session is in the step of the payment method type, asked for the type,
\* unless no payment method exists, and then the user is told and the session
\* is idle.
C24_FieldsOrOrderOrPaymentType ==
  [][\A u \in Users :
       OfferSelected(u) =>
         IF variant = "fields"
         THEN IF FieldsOfSelected(u) # <<>> THEN AtFirstField(u)
              ELSE /\ sessions'[u].step = "idle"
                   /\ Cardinality(requests') = Cardinality(requests) + 1
                   /\ \A r \in requests' \ requests :
                         /\ r.user_jid = u /\ r.status = "pending"
                         /\ Notifications(last'.outs, r.id) # {}
         ELSE /\ FieldsOfSelected(u) = <<>> /\ requests' = requests
              /\ IF methods # {}
                 THEN /\ sessions'[u].step = "awaiting_payment_method"
                      /\ sessions'[u].selected_offer_id # NullNum
                      /\ OutKinds(last'.outs) = <<<<u, "paymentTypes">>>>
                 ELSE /\ sessions'[u].step = "idle"
                      /\ OutKinds(last'.outs) = <<<<u, "noMethods">>>>]_vars

\* the user chose offer 1 of product 1, which has no custom field, in the
\* variant with custom fields: the order exists and the session is idle
C24_FieldlessProductOrdered ==
  \E u \in Users :
     /\ variant = "fields" /\ last.ev = Msg(u, T_1)
     /\ last.pre # Null /\ last.pre.step = "awaiting_offers" /\ last.pre.selected_game = 1
     /\ sessions[u].step = "idle"
     /\ \E r \in requests : r.user_jid = u /\ SentAbout(ADMIN_JID, "newRequest", r.id)

\* ------------------------------------------------------------------ C25
T_pendiente == <<"p", "e", "n", "d", "i", "e", "n", "t", "e">>

\* the names of the fields are pairwise different
DistinctNames(fields) ==
  \A a, b \in 1..Len(fields) : a # b => fields[a].field_name # fields[b].field_name

\* the values recorded are those of the first i fields, in field order
ValuesOfFirst(fv, fields, i) ==
  /\ ~fv.isnull /\ Len(fv.kv) = i
  /\ \A j \in 1..i : fv.kv[j].name = fields[j].field_name

\* fv2 is fv with text recorded, as sent, under the name of field i + 1
RecordedNext(fv, fv2, fields, i, text) ==
  /\ ~fv2.isnull /\ Len(fv2.kv) = i + 1
  /\ SubSeq(fv2.kv, 1, i) = fv.kv
  /\ fv2.kv[i + 1] = [name |-> fields[i + 1].field_name, value |-> text]

\* u's session is at field i + 1 of the k fields of its product, the values of
\* the first i fields recorded, and the step handled a message of u that is
\* not a control keyword
AnswersField(u, i, k) ==
  /\ last'.ev.from = u /\ sessions[u] # Null /\ sessions[u].step = "awaiting_fields"
  /\ last'.ev.text \notin KeywordTexts \cup {T_Ofertas}
  /\ GameByNumber(Store, sessions[u].selected_game) # Null
  /\ k = Len(FieldsOfSelected(u)) /\ DistinctNames(FieldsOfSelected(u))
  /\ i = sessions[u].current_field /\ i < k
  /\ ValuesOfFirst(sessions[u].field_values, FieldsOfSelected(u), i)

\* C25: for a product with k >= 1 custom fields, each message after the offer
\* selection is stored as sent under the name of the current field, in field
\* order; before the k-th the session stays in the field step, the index one
\* higher, the next field asked and no order created; the k-th creates one
\* order, pending, without screenshot, payment method "pendiente", with
\* exactly the k values, and the session is idle and clean.
C25_FieldsThenOneOrder ==
  [][\A u \in Users : \A k \in 1..MaxFields : \A i \in 0..(MaxFields - 1) :
       AnswersField(u, i, k) =>
         IF i + 1 < k
         THEN /\ sessions'[u].step = "awaiting_fields"
              /\ sessions'[u].current_field = i + 1
              /\ RecordedNext(sessions[u].field_values, sessions'[u].field_values,
                              FieldsOfSelected(u), i, last'.ev.text)
              /\ OutKinds(last'.outs) = <<<<u, "askField">>>>
              /\ last'.outs[1].arg = FieldsOfSelected(u)[i + 2].field_name
              /\ requests' = requests
         ELSE /\ Cardinality(requests' \ requests) = 1 /\ requests \subseteq requests'
              /\ \A r \in requests' \ requests :
                    /\ r.user_jid = u /\ r.status = "pending"
                    /\ r.screenshot_url = Null /\ r.payment_method = T_pendiente
                    /\ RecordedNext(sessions[u].field_values,
                                    r.payment_details.field_values,
                                    FieldsOfSelected(u), i, last'.ev.text)
                    /\ Cardinality(Notifications(last'.outs, r.id)) = 1
              /\ sessions'[u] = Upd(sessions[u], ClearFields)
              /\ sessions'[u].step = "idle" /\ sessions'[u].field_values = FVNull]_vars

\* product 2 has the fields "id" and "tel"; the user answered "1" and then
\* "2": the order holds id = "1" and tel = "2" and the session is idle
C25_TwoFieldsOrdered ==
  \E u \in Users : \E r \in requests :
     /\ last.ev = Msg(u, T_2) /\ last.pre # Null /\ last.pre.step = "awaiting_fields"
     /\ last.pre.current_field = 1
     /\ r.user_jid = u /\ r.payment_method = T_pendiente
     /\ r.payment_details.field_values.kv =
          <<[name |-> <<"i", "d">>, value |-> T_1], [name |-> <<"t", "e", "l">>, value |-> T_2]>>
     /\ sessions[u].step = "idle"

\* ------------------------------------------------------------------ C26
\* the funnel step before a step, and the kind of the prompt of a step
PrecedingStep(step) ==
  CASE step = "awaiting_game" -> "idle"
    [] step \in OfferSteps -> "awaiting_game"
    [] step = "awaiting_payment_method" -> "awaiting_offer"
    [] step = "awaiting_payment_choice" -> "awaiting_payment_method"
    [] step = "awaiting_screenshot" -> "awaiting_payment_choice"
    [] step = "awaiting_fields" -> "awaiting_offers"
    [] OTHER -> "idle"

PromptOf(step) ==
  CASE step \in {"idle", "awaiting_game"} -> "mainMenu"
    [] step \in OfferSteps -> "offerList"
    [] step = "awaiting_payment_method" -> "paymentTypes"
    [] step = "awaiting_payment_choice" -> "methodList"
    [] OTHER -> "none"

\* the step handled "volver" sent by u, whose session is in the funnel and
\* whose selected product is in the catalog
BackSent(u) ==
  /\ last'.ev = Msg(u, T_volver) /\ sessions[u] # Null /\ sessions[u].step # "idle"
  /\ sessions[u].step # "awaiting_game" =>
        GameByNumber(Store, sessions[u].selected_game) # Null

\* C26: in every funnel step other than idle, "volver" puts the session in
\* the step before it and sends that step's prompt.
C26_BackToPrecedingStep ==
  [][\A u \in Users :
       BackSent(u) =>
         /\ sessions'[u].step = PrecedingStep(sessions[u].step)
         /\ OutKinds(last'.outs) = <<<<u, PromptOf(PrecedingStep(sessions[u].step))>>>>]_vars

\* "volver" was sent in the offer step: the session is idle, not in the
\* product step, and the product menu was sent
C26_BackFromOffersToIdle ==
  \E u \in Users :
     /\ last.ev = Msg(u, T_volver) /\ last.pre # Null /\ last.pre.step \in OfferSteps
     /\ sessions[u].step = "idle" /\ KindsTo(u) = <<"mainMenu">>

\* ------------------------------------------------------------------ C27
\* C27: handling "volver" of a user, in whatever step the session is, creates
\* and changes no order, stores no file, sends the operator nothing and
\* writes neither the catalog nor the operator's dialog.
C27_BackTouchesOnlySession ==
  [][\A u \in Users :
       last'.ev = Msg(u, T_volver) =>
         /\ requests' = requests /\ files' = files /\ dialog' = dialog
         /\ GamesUnchanged
         /\ \A i \in 1..Len(last'.outs) : last'.outs[i].to = u
         /\ \A i \in 1..Len(last'.calls) :
               last'.calls[i] \in {"ensureSession", "updSession"}]_vars

\* "volver" was sent with the values of a field being collected: the session
\* is back in the offer step, nothing was sent to the operator, no order exists
C27_BackFromFields ==
  \E u \in Users :
     /\ last.ev = Msg(u, T_volver) /\ last.pre # Null /\ last.pre.step = "awaiting_fields"
     /\ sessions[u].step = "awaiting_offers" /\ sessions[u].selected_offers = Null
     /\ KindsTo(u) = <<"offerList">> /\ KindsTo(ADMIN_JID) = <<>>
     /\ requests = {}

\* ------------------------------------------------------------------ C28
\* the step handled a message of u, not a control keyword, with u's session
\* in the step of the payment method type
TypeAnswered(u) ==
  /\ last'.ev.from = u /\ sessions[u] # Null
  /\ sessions[u].step = "awaiting_payment_method"
  /\ last'.ev.text \notin KeywordTexts

\* the type the text names, "none" when it is neither "1" nor "2"
TypeNamed(text) ==
  IF Trim(text) = <<"1">> THEN "card" ELSE IF Trim(text) = <<"2">> THEN "mobile" ELSE "none"

\* what C28 says of every case but that of a type without methods
TypeStepElse(u) ==
  LET type == TypeNamed(last'.ev.text)
  IN IF type = "none"
     THEN /\ sessions'[u] = sessions[u]
          /\ OutKinds(last'.outs) = <<<<u, "oneOrTwo">>>>
     ELSE /\ sessions'[u] = [sessions[u] EXCEPT !.step = "awaiting_payment_choice",
                                                 !.selected_payment_type = type]
          /\ OutKinds(last'.outs) = <<<<u, "methodList">>>>
          /\ last'.outs[1].arg = getPaymentMethods(Store, type)

NoMethodOfType(u) ==
  /\ TypeNamed(last'.ev.text) # "none"
  /\ getPaymentMethods(Store, TypeNamed(last'.ev.text)) = <<>>

\* C28 as the claim states it: only "1" and "2" are accepted, any other input
\* leaves the session as it was; a type without payment methods ends the
\* flow, the session idle; otherwise the methods of the type are listed and
\* the session is in the step of the method choice with the type recorded.
C28_EmptyTypeEndsFlow ==
  [][\A u \in Users :
       TypeAnswered(u) =>
         /\ requests' = requests /\ GamesUnchanged
         /\ IF NoMethodOfType(u) THEN sessions'[u].step = "idle"
            ELSE TypeStepElse(u)]_vars

\* C28, amended: as above, but a type without payment methods leaves the
\* session as it was, in the step of the payment method type, and the user is
\* told to try the other type.
C28_EmptyTypeAsksAgain ==
  [][\A u \in Users :
       TypeAnswered(u) =>
         /\ requests' = requests /\ GamesUnchanged
         /\ IF NoMethodOfType(u)
            THEN /\ sessions'[u] = sessions[u]
                 /\ OutKinds(last'.outs) = <<<<u, "noMethodsOfType">>>>
            ELSE TypeStepElse(u)]_vars

\* the user answered "2" while a card and no mobile method exists: the
\* session is still in the step of the payment method type
C28_MobileWithoutMethods ==
  \E u \in Users :
     /\ last.ev = Msg(u, T_2) /\ last.pre # Null
     /\ last.pre.step = "awaiting_payment_method"
     /\ getPaymentMethods(Store, "card") # <<>> /\ getPaymentMethods(Store, "mobile") = <<>>
     /\ sessions[u] = last.pre /\ KindsTo(u) = <<"noMethodsOfType">>

\* ------------------------------------------------------------------ C29
ChoiceRefusals == {"invalidNumber", "methodNotFound", "internalError"}

\* the step handled a message of u in the step of the method choice and
\* refused nothing: the method the text names was chosen
MethodChosen(u) ==
  /\ last'.ev.from = u /\ sessions[u] # Null
  /\ sessions[u].step = "awaiting_payment_choice"
  /\ last'.ev.text \notin KeywordTexts
  /\ \A k \in ChoiceRefusals : ~HasKind(last'.outs, u, k)

\* C29: a successful method choice generates an order id, records it and the
\* index of the method in the session and puts the session in the screenshot
\* step without creating an order; a user's message creates an order only in
\* the screenshot step, from an attachment, and under the id of the session;
\* while a session waits for the screenshot no order has its id, and cancel
\* in that step leaves the orders as they were.
C29_OrderOnlyAfterScreenshot ==
  [][\A u \in Users :
       /\ MethodChosen(u) =>
            /\ sessions'[u] =
                 [sessions[u] EXCEPT !.step = "awaiting_screenshot",
                                     !.request_id = RequestId(nextReq),
                                     !.selected_payment_number = emojiToNumber(last'.ev.text)]
            /\ RequestId(nextReq) \notin Ids(requests')
            /\ requests' = requests /\ files' = files
            /\ OutKinds(last'.outs) = <<<<u, "paymentInfo">>>>
            /\ last'.outs[1].arg.id = RequestId(nextReq)
       /\ (variant = "proof" /\ last'.ev.from = u /\ Ids(requests') # Ids(requests)) =>
            /\ sessions[u] # Null /\ sessions[u].step = "awaiting_screenshot"
            /\ last'.ev.image \/ last'.ev.document
            /\ Ids(requests') = Ids(requests) \cup {sessions[u].request_id}
       /\ (sessions'[u] # Null /\ sessions'[u].step = "awaiting_screenshot") =>
            sessions'[u].request_id \notin Ids(requests') \cup {Null}
       /\ (last'.ev.from = u /\ last'.ev.text \in CancelTexts /\ sessions[u] # Null
             /\ sessions[u].step = "awaiting_screenshot") =>
            /\ requests' = requests /\ files' = files
            /\ sessions[u].request_id \notin Ids(requests')
            /\ sessions'[u].step = "idle" /\ sessions'[u].request_id = Null]_vars

\* the user cancelled in the screenshot step: the id generated for the pass
\* names no order, the session is idle and holds no id
C29_CancelledBeforeScreenshot ==
  \E u \in Users :
     /\ last.ev = Msg(u, T_cancelar) /\ last.pre # Null
     /\ last.pre.step = "awaiting_screenshot" /\ last.pre.request_id = RequestId(1)
     /\ RequestId(1) \notin Ids(requests)
     /\ sessions[u].step = "idle" /\ sessions[u].request_id = Null

\* ------------------------------------------------------------------ C30
\* the step handled the line "2 X 5 6" sent by the operator while the dialog
\* that adds offers to a product was open
OfferLineSent ==
  /\ last'.ev = Msg(ADMIN_JID, T_linea_oferta)
  /\ dialog # Null /\ dialog.command = "anadir_ofertas"

\* C30: a line <index> <description> <priceMobile> <priceCard> without USD
\* price is accumulated with exactly those values: "2 X 5 6" adds the offer
\* number 2, description "X", mobile price 5, card price 6, no USD price.
C30_LineAccumulatedAsWritten ==
  [][OfferLineSent =>
       /\ dialog' # Null
       /\ dialog'.data.offers =
            dialog.data.offers
              \o <<[number |-> 2, desc |-> <<"X">>, mobile |-> 5, card |-> 6,
                    usd |-> NullNum]>>]_vars

\* the line "2 X 5 6" was accumulated with 6 as the USD price, 5 as the card
\* price, no mobile price (NaN) and an empty description
C30_PricesShifted ==
  /\ last.ev = Msg(ADMIN_JID, T_linea_oferta)
  /\ dialog # Null /\ dialog.command = "anadir_ofertas"
  /\ dialog.data.offers # <<>>
  /\ dialog.data.offers[Len(dialog.data.offers)] =
       [number |-> 2, desc |-> <<>>, mobile |-> NullNum, card |-> 5, usd |-> 6]
  /\ KindsTo(ADMIN_JID) = <<"offerAdded">>

\* ------------------------------------------------------------------ C31
\* the value kept under a key of a details object, Null when the key is absent
DetailOf(kv, name) ==
  IF \E i \in 1..Len(kv) : kv[i].name = name
  THEN kv[CHOOSE i \in 1..Len(kv) : kv[i].name = name].value
  ELSE Null

\* what the operator can have entered as the card number at step 2
EnteredNumbers == {RemoveSpaces(t) : t \in AnswerTexts \ CancelTexts}

\* the step handled the last input of the dialog that edits a card
CardEditCompleted ==
  /\ last'.ev.from = ADMIN_JID /\ dialog # Null
  /\ dialog.command = "editar_metodo" /\ dialog.data.type = "card" /\ dialog.step = 3
  /\ last'.ev.text \notin CancelTexts
  /\ getPaymentMethodById(Store, dialog.data.method_id) # Null

\* C31: on completing the edit of a card the label is the one entered at
\* step 1, the confirm number the one entered at step 3, and the card number
\* one that was entered at step 2.
C31_EditMergesEveryValue ==
  [][CardEditCompleted =>
       \E m \in methods' :
          /\ m.id = dialog.data.method_id
          /\ m.label = dialog.data.new_label
          /\ DetailOf(m.details, "confirm_number") = last'.ev.text
          /\ DetailOf(m.details, "card_number") \in EnteredNumbers]_vars

\* card 1 was edited with "2" entered as label, card number and confirm
\* number: label and confirm number are "2", the card number is still "4"
C31_CardNumberNotSaved ==
  /\ last.ev = Msg(ADMIN_JID, T_2) /\ last.pre # Null
  /\ last.pre.command = "editar_metodo" /\ last.pre.step = 3
  /\ dialog = Null
  /\ \E m \in methods :
        /\ m.id = 7 /\ m.label = T_2
        /\ DetailOf(m.details, "confirm_number") = T_2
        /\ DetailOf(m.details, "card_number") = <<"4">>

\* ------------------------------------------------------------------ C32
\* the rows of the catalog, as it is now, that an input or a stored selection names
OfferNow(gameNumber, n) ==
  {o \in offers : /\ GameByNumber(Store, gameNumber) # Null
                  /\ o.game_id = GameByNumber(Store, gameNumber).id /\ o.number = n}

ProductNow(n) == {g \in games : g.number = n /\ \E o \in offers : o.game_id = g.id}

MethodNow(type, n) == {m \in methods : m.type = type /\ m.number = n}

\* the product, the offer and the method a session in the proof variant has
\* selected are all in the catalog now
SelectionNow(s) ==
  /\ GameByNumber(Store, s.selected_game) # Null
  /\ getOfferById(Store, s.selected_offer_id) # Null
  /\ MethodNow(s.selected_payment_type, s.selected_payment_number) # {}

\* every number of the text names an offer, now, of the product selected
OffersNow(s, text) ==
  /\ ParseNumbers(text) # <<>>
  /\ \A i \in 1..Len(ParseNumbers(text)) :
        OfferNow(s.selected_game, ParseNumbers(text)[i]) # {}

\* what a step of u's session s on the event ev did, s2 the session after it
ResolvedNow(u, s, s2, ev) ==
  LET n == emojiToNumber(ev.text)
  IN CASE s.step = "awaiting_game" ->
            IF ProductNow(n) # {}
            THEN s2.step \in OfferSteps /\ s2.selected_game = n
            ELSE s2 = s
       [] s.step = "awaiting_offer" ->
            IF OfferNow(s.selected_game, n) # {}
            THEN \E o \in OfferNow(s.selected_game, n) : s2.selected_offer_id = o.id
            ELSE s2.selected_offer_id = s.selected_offer_id /\ s2.step # "awaiting_payment_method"
       [] s.step = "awaiting_offers" ->
            IF OffersNow(s, ev.text)
            THEN \/ s2.step = "awaiting_fields" /\ requests' = requests
                      /\ \A i \in 1..Len(s2.selected_offers) :
                            \E o \in offers : o.id = s2.selected_offers[i]
                 \/ s2.step = "idle" /\ requests' # requests
            ELSE s2.step # "awaiting_fields" /\ requests' = requests
       [] s.step = "awaiting_payment_choice" ->
            (s2.step = "awaiting_screenshot") <=>
               (/\ MethodNow(s.selected_payment_type, n) # {}
                /\ GameByNumber(Store, s.selected_game) # Null
                /\ getOfferById(Store, s.selected_offer_id) # Null)
       [] s.step = "awaiting_screenshot" ->
            (requests' # requests) <=> ((ev.image \/ ev.document) /\ SelectionNow(s))
       [] s.step = "awaiting_fields" ->
            GameByNumber(Store, s.selected_game) = Null =>
               requests' = requests /\ s2.step = "idle"
       [] OTHER -> TRUE

\* the ids of the offers an order of the variant with custom fields is made
\* of: those the text names, now, in the offer step, those stored otherwise
SelectedNow(s, text) ==
  IF s.step = "awaiting_offers"
  THEN [i \in 1..Len(ParseNumbers(text)) |->
          (CHOOSE o \in OfferNow(s.selected_game, ParseNumbers(text)[i]) : TRUE).id]
  ELSE s.selected_offers

\* an order the step created names rows that are in the catalog now
OrderFromCatalogNow(s, ev, r) ==
  /\ GameByNumber(Store, s.selected_game) # Null
  /\ r.game_name = GameByNumber(Store, s.selected_game).name
  /\ IF variant = "proof"
     THEN /\ SelectionNow(s)
          /\ r.offer_desc = getOfferById(Store, s.selected_offer_id).description
          /\ \E m \in MethodNow(s.selected_payment_type, s.selected_payment_number) :
                r.payment_method = m.label
     ELSE r.offer_desc = JoinDescriptions(getOffersByIds(Store, SelectedNow(s, ev.text)))

\* C32: every funnel step resolves the index sent and the selections stored
\* against the catalog as it is when the message is handled: an index selects
\* a product, offer or method exactly when the row is in the catalog now,
\* created rows included; a stored selection whose row was deleted is not
\* used, and an order names only rows that are in the catalog now.
C32_ResolvedAgainstCatalogNow ==
  [][\A u \in Users :
       (last'.ev.from = u /\ sessions[u] # Null) =>
          /\ ResolvedNow(u, sessions[u], sessions'[u], last'.ev)
          /\ \A r \in requests' \ requests : OrderFromCatalogNow(sessions[u], last'.ev, r)]_vars

\* offer 2 of product 1 was created while the user was in the offer step of
\* product 1, and the user's "2" selected it
C32_CreatedOfferSelected ==
  \E u \in Users : \E o \in offers \ InitOffers :
     /\ last.ev = Msg(u, T_2) /\ last.pre # Null
     /\ last.pre.step = "awaiting_offer" /\ last.pre.selected_game = 1
     /\ o.number = 2 /\ sessions[u].selected_offer_id = o.id
     /\ sessions[u].step = "awaiting_payment_method"

\* ------------------------------------------------------------------ C33
\* the last step of the dialogs that create a payment method
LastStepOf(command) == IF command = "crear_tarjeta" THEN 4 ELSE 3

\* the step handled an input of the operator, not cancel, in a dialog that
\* creates a payment method
CreatingInput ==
  /\ last'.ev.from = ADMIN_JID /\ dialog # Null
  /\ dialog.command \in {"crear_tarjeta", "crear_saldo"}
  /\ last'.ev.text \notin CancelTexts

\* the method the last step of the dialog creates from what was entered
MethodEntered(d, text) ==
  [type |-> IF d.command = "crear_tarjeta" THEN "card" ELSE "mobile",
   number |-> d.data.number, label |-> d.data.label,
   details |-> IF d.command = "crear_tarjeta"
               THEN <<[name |-> "card_number", value |-> d.data.card_number],
                      [name |-> "confirm_number", value |-> text]>>
               ELSE <<[name |-> "phone_number", value |-> RemoveSpaces(text)]>>]

\* C33: the dialog that creates a card takes four inputs and the one that
\* creates a mobile method three: an unparsable index at step 1 keeps the
\* dialog at step 1, every other input before the last advances the step by
\* one and creates nothing, and the last input ends the dialog and creates
\* exactly one method, with the index, the label and the numbers entered,
\* unless the store rejects the write, which is reported and creates none.
C33_OneMethodAtLastStep ==
  [][CreatingInput =>
       IF dialog.step < LastStepOf(dialog.command)
       THEN /\ methods' = methods
            /\ IF dialog.step = 1 /\ Falsy(emojiToNumber(last'.ev.text))
               THEN dialog' = dialog
               ELSE /\ dialog' # Null /\ dialog'.command = dialog.command
                    /\ dialog'.step = dialog.step + 1
                    /\ dialog.step = 1 => dialog'.data.number = emojiToNumber(last'.ev.text)
                    /\ dialog.step = 2 => dialog'.data.label = last'.ev.text
       ELSE /\ dialog' = Null
            /\ IF last'.failed = "createMethod"
               THEN methods' = methods /\ OutKinds(last'.outs) = <<<<ADMIN_JID, "saveError">>>>
               ELSE /\ methods \subseteq methods' /\ Cardinality(methods' \ methods) = 1
                    /\ \A m \in methods' \ methods :
                          [type |-> m.type, number |-> m.number, label |-> m.label,
                           details |-> m.details] = MethodEntered(dialog, last'.ev.text)]_vars

\* the operator entered "2" four times after /crear tarjeta: card 2 exists,
\* label, card number and confirm number "2", and the dialog is closed
C33_CardTwoCreated ==
  /\ last.ev = Msg(ADMIN_JID, T_2) /\ last.pre # Null
  /\ last.pre.command = "crear_tarjeta" /\ last.pre.step = 4
  /\ dialog = Null /\ Cardinality(methods) = 2
  /\ \E m \in methods :
        /\ m.type = "card" /\ m.number = 2 /\ m.label = T_2
        /\ DetailOf(m.details, "card_number") = T_2
        /\ DetailOf(m.details, "confirm_number") = T_2

\* ------------------------------------------------------------------ C34
\* the store with every session but that of jid absent
StoreOf(jid) ==
  [Store EXCEPT !.sessions = [w \in Peers |-> IF w = jid THEN sessions[w] ELSE Null]]

\* what the handler of ev does when it finds no session but the sender's
HandledAlone(ev) == Run(StoreOf(ev.from), Route(variant, StoreOf(ev.from), ev).ops, 0)

\* C34: handling a message of one identity changes no session of another
\* identity and does not depend on one: the sessions of all users but the
\* sender are as they were, an operator's message changes no session, and
\* what the handler sends and writes is what it would with every other
\* session absent.
C34_OnlyOwnSession ==
  [][/\ \A v \in Peers : last'.ev.from # v => sessions'[v] = sessions[v]
     /\ last'.outs = HandledAlone(last'.ev).outs
     /\ requests' = HandledAlone(last'.ev).S.requests
     /\ \A u \in Peers :
           last'.ev.from = u => sessions'[u] = HandledAlone(last'.ev).S.sessions[u]]_vars

\* the operator completed the order of one user while the other user was in
\* the screenshot step: that session is still there, and the owner was told
C34_CompletedBesideOpenSession ==
  \E u, v \in Peers :
     /\ u # v /\ last.ev = Msg(ADMIN_JID, T_completar_R1)
     /\ \E r \in requests : r.user_jid = u /\ r.status = "completed"
     /\ SentTo(u, "completed")
     /\ sessions[u].step = "idle"
     /\ sessions[v] # Null /\ sessions[v].step \in {"awaiting_screenshot", "awaiting_fields"}

\* ------------------------------------------------------------------ C35
\* the selections the step of a session row needs are set
SelectionsSet(s) ==
  /\ s.step = "awaiting_screenshot" =>
        /\ s.request_id # Null /\ s.selected_game # NullNum
        /\ s.selected_offer_id # NullNum /\ s.selected_payment_type # "null"
        /\ s.selected_payment_number # NullNum
  /\ s.step = "awaiting_fields" =>
        /\ s.selected_game # NullNum
        /\ s.selected_offers # Null /\ Len(s.selected_offers) > 0
        /\ s.current_field # NullNum /\ s.current_field >= 0

\* C35: whenever a session is in the screenshot step its order id, product,
\* offer, payment type and payment index are set, and whenever it is in the
\* field step its product and a non-empty list of offers are set and the
\* index of the current field is at least 0.
C35_StepHasItsSelections ==
  \A u \in Users : sessions[u] # Null => SelectionsSet(sessions[u])

\* a session in the screenshot step that holds an order id and a payment
\* index and neither product, offer nor payment type
C35_ScreenshotStepWithoutSelection ==
  \E u \in Users :
     /\ sessions[u] # Null /\ sessions[u].step = "awaiting_screenshot"
     /\ sessions[u].request_id # Null /\ sessions[u].selected_payment_number # NullNum
     /\ sessions[u].selected_game = NullNum /\ sessions[u].selected_offer_id = NullNum
     /\ sessions[u].selected_payment_type = "null"
     /\ \E r \in requests : r.user_jid = u

\* ------------------------------------------------------------------ C36
\* the catalog the user selected from, before any deletion
StartCatalog == [games |-> InitGames, offers |-> InitOffers]

\* the offers a session row holds: one id (index.js), a list of ids (part_002)
StoredOffers(s) ==
  IF variant = "proof" THEN <<s.selected_offer_id>> ELSE s.selected_offers

\* order r names the product and the offers session s selected
OrderOfSelection(s, r) ==
  /\ GameByNumber(StartCatalog, s.selected_game) # Null
  /\ r.game_name = GameByNumber(StartCatalog, s.selected_game).name
  /\ r.offer_desc # T_empty
  /\ s.step # "awaiting_offers" =>
        r.offer_desc = JoinDescriptions(getOffersByIds(StartCatalog, StoredOffers(s)))

\* C36: every order created carries the name of the product the user selected
\* and a non-empty offer description made of the offers the user selected,
\* whatever the operator deleted between selection and finalization.
C36_OrderNamesSelection ==
  [][\A r \in requests' \ requests : OrderOfSelection(sessions[r.user_jid], r)]_vars

\* an order with an empty offer description, created by the answer to the
\* last field after the selected offer was deleted
C36_OrderWithoutOffers ==
  /\ variant = "fields" /\ last.pre # Null
  /\ last.pre.step = "awaiting_fields" /\ last.pre.selected_offers # Null
  /\ getOffersByIds(Store, last.pre.selected_offers) = <<>>
  /\ \E r \in requests :
        /\ r.user_jid = last.ev.from /\ r.offer_desc = T_empty
        /\ SentAbout(ADMIN_JID, "newRequest", r.id)

\* ------------------------------------------------------------------ C37
\* Under SpecNotice users place orders and the operator completes them; a
\* call of the /completar handler may be rejected: the update of the order or
\* one of its two sends.
NoticeTexts == {T_1, T_2, T_cancelar}

NoticeEvents(u) == {Msg(u, t) : t \in NoticeTexts} \cup {Image(u, T_empty)}

NoticeClient == \E u \in Users : \E ev \in NoticeEvents(u) : Handle(ev)

NoticeOperator == \E t \in CompletarTexts : Handle(Msg(ADMIN_JID, t))

NoticeOperatorFailing == \E t \in CompletarTexts : HandleFailing(Msg(ADMIN_JID, t))

NextNotice == NoticeClient \/ NoticeOperator \/ NoticeOperatorFailing

SpecNotice == Init /\ [][NextNotice]_vars

\* the orders a step completes
CompletedByStep == {r \in requests : r.status = "pending" /\
                      \E r2 \in requests' : r2.id = r.id /\ r2.status = "completed"}

\* the handler sent the owner of order r its completion notice
NoticeSent(l, r) ==
  \E i \in 1..Len(l.outs) :
     l.outs[i].to = r.user_jid /\ l.outs[i].kind = "completed" /\ l.outs[i].arg.id = r.id

\* C37: every order whose status is completed has had its completion notice
\* sent to its owner: the handler that completes an order sends the notice,
\* also when a call of that handler fails.
C37_CompletedMeansNotified ==
  [][\A r \in CompletedByStep : NoticeSent(last', r)]_vars

\* an order is completed, the send of its notice was rejected, and no notice
\* went out
C37_CompletedUnnotified ==
  /\ last.ev.from = ADMIN_JID /\ last.failed = "send" /\ last.thrown
  /\ last.outs = <<>>
  /\ \E r \in requests : r.status = "completed" /\ last.ev.text = T_completar_R1
                          /\ r.id = <<"R", "1">>

\* ------------------------------------------------------------------ C38
\* Under SpecFinal every message arrives in a transport batch of its own and
\* the listener calls overlap as under SpecConc.  A user walks the funnel of
\* product 2 (part_002: one custom field) or of product 1 up to the message
\* that finalizes.
FinalTexts == {T_1, T_2}

FinalEvents(u) == {Msg(u, t) : t \in FinalTexts} \cup {Image(u, T_empty)}

UpsertOne == \E b \in Slots : \E u \in Users : \E ev \in FinalEvents(u) : Upsert(b, <<ev>>)

NextFinal ==
  \/ UpsertOne
  \/ \E b \in Slots : ReadStore(b)
  \/ \E b \in Slots : WriteStore(b)

SpecFinal == Init /\ [][NextFinal]_vars

\* the session row s, as a handler read it, is in the finalizing step: the
\* screenshot step, or the field step at the last field of the product
Finalizing(s) ==
  \/ s.step = "awaiting_screenshot"
  \/ /\ s.step = "awaiting_fields"
     /\ GameByNumber(Store, s.selected_game) # Null
     /\ s.current_field + 1 >=
          Len(getGameFields(Store, GameByNumber(Store, s.selected_game).id))

\* C38: when two messages of one user that both arrive in the finalizing step
\* are delivered in separate batches, at most one order is created and at
\* most one notification is sent to the operator for that pass: a handler
\* that read the finalizing step leaves the user with no more orders than
\* passes and notifies the operator of nothing but an order it created.
C38_OneOrderForTwoFinalMessages ==
  [][\A u \in Users :
       (HandlerEnds /\ last'.ev.from = u /\ last'.pre # Null /\ Finalizing(last'.pre)) =>
          /\ Cardinality(OrdersOf(requests', u)) <= passes'[u]
          /\ NotifiedIds(last'.outs) \subseteq Ids(requests') \ Ids(requests)]_vars

\* two answers to the last field were handled side by side and each created
\* an order of the one pass and notified the operator of it
C38_TwoOrdersForOneField ==
  \E u \in Users :
     /\ variant = "fields" /\ passes[u] = 1
     /\ last.ev = Msg(u, T_1) /\ last.pre # Null /\ last.pre.step = "awaiting_fields"
     /\ Cardinality(OrdersOf(requests, u)) = 2
     /\ \A r \in OrdersOf(requests, u) : r.game_name = <<"B">>
     /\ \E r \in OrdersOf(requests, u) : SentAbout(ADMIN_JID, "newRequest", r.id)

\* ------------------------------------------------------------------ C39
\* C39: when two /completar commands for one pending order are delivered in
\* separate batches, the owner receives at most one completion notice and
\* exactly one of the two commands is rejected as already completed: a
\* /completar handler that ends when the order is completed in the store
\* sends the owner nothing, leaves the order as it is and rejects.
C39_SecondCompletarRejected ==
  [][\A r \in requests :
       (/\ HandlerEnds /\ last'.ev = Msg(ADMIN_JID, T_completar_R1)
        /\ r.id = CompletarId(T_completar_R1) /\ r.status = "completed") =>
          /\ ~NoticeSent(last', r)
          /\ r \in requests'
          /\ OutKinds(last'.outs) = <<<<ADMIN_JID, "alreadyCompleted">>>>]_vars

\* the order was completed twice and the second handler too has sent the
\* notice and the confirmation: neither command was rejected
C39_TwoNotices ==
  \E r \in requests :
     /\ r.id = CompletarId(T_completar_R1)
     /\ r.status = "completed" /\ r.completed_at = 2
     /\ last.ev = Msg(ADMIN_JID, T_completar_R1)
     /\ OutKinds(last.outs) = <<<<r.user_jid, "completed">>, <<ADMIN_JID, "markedCompleted">>>>

\* ------------------------------------------------------------------ C40
\* the steps the handler of a dialog's kind has a branch for
StepRange(d) ==
  CASE d.command = "crear_tarjeta" -> 1..4
    [] d.command = "crear_saldo" -> 1..3
    [] d.command \in {"crear_tabla", "anadir_ofertas", "editar_juego"} -> {1}
    [] d.command = "editar_oferta" -> 1..4
    [] d.command = "editar_metodo" -> IF d.data.type = "card" THEN 1..3 ELSE 1..2
    [] OTHER -> {}

\* Under SpecSteps the operator walks the dialogs as under SpecDialogs and
\* may send /mid into an open dialog.
DialogMid ==
  /\ games = InitGames /\ offers = InitOffers /\ methods = InitMethods
  /\ dialog # Null
  /\ Handle(Msg(ADMIN_JID, T_mid))

NextSteps == DialogMessage \/ DialogMessageWriteFails \/ DialogMid

SpecSteps == Init /\ [][NextSteps]_vars

\* the last message was sent by the operator while a dialog existed
SentIntoDialog == last.ev.from = ADMIN_JID /\ last.pre # Null

\* C40 as the claim states it: the step of every stored dialog lies within
\* the range of its kind, so every message the operator sends while a dialog
\* exists is handled by a step of that dialog.
C40_DialogStepInRange ==
  /\ dialog # Null => dialog.step \in StepRange(dialog)
  /\ SentIntoDialog =>
        last.route = "dialog" /\ dispatchDialog(Store, ADMIN_JID, last.pre, last.ev.text).handled

\* C40 as amended: the same for every message but /mid, which is answered
\* before the dialog is looked up and leaves the dialog as it is.
C40_DialogStepInRangeButMid ==
  /\ dialog # Null => dialog.step \in StepRange(dialog)
  /\ SentIntoDialog =>
        IF last.ev.text = T_mid
        THEN last.route = "mid" /\ dialog = last.pre
        ELSE /\ last.route = "dialog"
             /\ dispatchDialog(Store, ADMIN_JID, last.pre, last.ev.text).handled

\* the edit of a card has reached its last step, the confirm number
C40_CardEditAtLastStep ==
  /\ dialog # Null /\ dialog.command = "editar_metodo"
  /\ dialog.data.type = "card" /\ dialog.step = 3
  /\ last.ev = Msg(ADMIN_JID, T_2) /\ last.route = "dialog"
  /\ last.pre # Null /\ last.pre.step = 2

====
